---- MODULE Spec2Model ----
(***************************************************************************)
(* Logo manager plugin: the panel (src/src/ui.tsx:42-783) and the core     *)
(* (src/src/ui.tsx:1417-2380) as one state machine.                        *)
(*                                                                         *)
(* Strings are tuples of UTF-16 code units, so that trim, toUpperCase,     *)
(* toLowerCase and the < of JavaScript strings are computed, not assumed.  *)
(* Node ids are positions in doc; 0 stands for null.                       *)
(*                                                                         *)
(* The core is one JavaScript event loop: running names the handler that   *)
(* is executing synchronously (0 when the loop is idle).  A handler gives  *)
(* up the loop only at an await of a host promise (font load, image        *)
(* export); a message or a resolved promise is taken only when the loop is *)
(* idle.                                                                   *)
(***************************************************************************)
EXTENDS Integers, Sequences, FiniteSets, TLC

VARIABLES
    doc,                  \* the host document: Seq of node records
    selection,            \* panel: selectionA..D, the captured node id or 0
    productNameError,     \* panel: "Component set name is required" shown (vector tab)
    textProductNameError, \* panel: the same on the text tab
    inbox,                \* messages panel -> core, in the host's event order
    toPanel,              \* messages core -> panel
    tasks,                \* core: one record per handler invocation, in start order
    running,              \* core: index in tasks of the handler on the loop, or 0
    clicks,               \* how often the user has pressed a create button
    form,                 \* panel: the colour and shape fields of the two tabs
    clone,                \* core: the node a variant builder is fitting into its box
    settings,             \* host: the stored plugin settings; panel: the settings outside the form
    preview               \* panel: previewA..D, <<>> or the picture of a captured node

vars == <<doc, selection, productNameError, textProductNameError,
          inbox, toPanel, tasks, running, clicks, form, clone, settings, preview>>

\* ------------------------------------------------------------------ bounds
MaxCreates == 1     \* presses of a create button in one run
MaxGrabs == 1       \* grab messages the panel dispatches in one run
MaxPlacements == 3  \* presses of the create button in a placement run
MaxTargeted == 2    \* presses of a create button in a run with a target that may go
MaxOrdered == 4     \* presses of the create button in a run with two targets
MaxBuilt == 1       \* presses of a create button in a run with edited colour fields
MaxFills == 2       \* fills of one node in a recolouring run
MaxCalls == 3       \* host calls on one node in a fitting run

\* ----------------------------------------------------------------- strings
Null == 0

IsSpace(c) == c = 32

RECURSIVE TrimStart(_)
TrimStart(s) ==
    IF s # <<>> /\ IsSpace(Head(s)) THEN TrimStart(Tail(s)) ELSE s

RECURSIVE TrimEnd(_)
TrimEnd(s) ==
    IF s # <<>> /\ IsSpace(s[Len(s)]) THEN TrimEnd(SubSeq(s, 1, Len(s) - 1)) ELSE s

\* String.prototype.trim
Trim(s) == TrimEnd(TrimStart(s))

\* String.prototype.toUpperCase / toLowerCase on the code units a-z, A-Z
ToUpperCase(s) == [i \in 1..Len(s) |-> IF s[i] \in 97..122 THEN s[i] - 32 ELSE s[i]]
ToLowerCase(s) == [i \in 1..Len(s) |-> IF s[i] \in 65..90 THEN s[i] + 32 ELSE s[i]]

\* a < b on JavaScript strings: lexicographic on code units, a proper prefix is less
RECURSIVE StrLess(_, _)
StrLess(a, b) ==
    IF b = <<>> THEN FALSE
    ELSE IF a = <<>> THEN TRUE
    ELSE IF Head(a) # Head(b) THEN Head(a) < Head(b)
    ELSE StrLess(Tail(a), Tail(b))

\* /^[A-Z]$/i.test(name.trim())
IsSingleLetter(name) ==
    LET t == Trim(name) IN
    Len(t) = 1 /\ (t[1] \in 65..90 \/ t[1] \in 97..122)

\* "Logo component set"
DefaultProductName ==
    <<76, 111, 103, 111, 32, 99, 111, 109, 112, 111, 110, 101, 110, 116, 32, 115, 101, 116>>

\* "content"
ContentName == <<99, 111, 110, 116, 101, 110, 116>>

\* ---------------------------------------------------------------- document
Slots == {"A", "B", "C", "D"}

PageId == 1

\* A paint is [type, color, opacity, visible], opacity in percent and color
\* "none" for a paint that is not solid; mixed is node.fills === figma.mixed.
Node(type, name, w, h) ==
    [type |-> type, name |-> name, size |-> "", w |-> w, h |-> h, padding |-> 0,
     background |-> <<>>, fills |-> <<>>, mixed |-> FALSE, source |-> Null, kids |-> <<>>, removed |-> FALSE, position |-> "host",
     locked |-> FALSE]

\* figma.getNodeById: the node, or null once it was removed
GetNodeById(d, id) ==
    IF id \in 1..Len(d) /\ ~d[id].removed THEN id ELSE Null

Without(s, c) == SelectSeq(s, LAMBDA x : x # c)

\* children.indexOf(c), 0-based, -1 when absent
IndexOf(s, c) ==
    IF \E i \in 1..Len(s) : s[i] = c
    THEN (CHOOSE i \in 1..Len(s) : s[i] = c /\ \A j \in 1..(i - 1) : s[j] # c) - 1
    ELSE -1

\* c leaves its present parent
Detach(d, c) == [n \in 1..Len(d) |-> [d[n] EXCEPT !.kids = Without(@, c)]]

\* parent.appendChild(c)
AppendChild(d, p, c) ==
    LET d1 == Detach(d, c) IN [d1 EXCEPT ![p].kids = Append(@, c)]

\* an insertChild that puts c at index by moving the child found there to the
\* end: the reordering of siblings C6 rules out
InsertChildSwapping(d, p, index, c) ==
    LET d1 == Detach(d, c)
        ks == d1[p].kids
    IN  IF index >= Len(ks)
        THEN [d1 EXCEPT ![p].kids = Append(ks, c)]
        ELSE [d1 EXCEPT ![p].kids = Append([ks EXCEPT ![index + 1] = c], ks[index + 1])]

\* parent.insertChild(index, c), index 0-based
InsertChild(d, p, index, c) ==
    LET d1 == Detach(d, c)
        ks == d1[p].kids
        at == IF index > Len(ks) THEN Len(ks) ELSE index
    IN  [d1 EXCEPT ![p].kids = SubSeq(ks, 1, at) \o <<c>> \o SubSeq(ks, at + 1, Len(ks))]

\* figma.createFrame / createComponent / createText: a new node on the current page
CreateNode(d, rec) ==
    LET id == Len(d) + 1 IN
    [Append(d, rec) EXCEPT ![PageId].kids = Append(@, id)]

NewId(d) == Len(d) + 1

\* ------------------------------------------------------- placement organizer
\* getVariantGroupLetter(productName)
GetVariantGroupLetter(productName) ==
    LET trimmed == Trim(productName) IN
    IF trimmed = <<>> THEN <<65>> ELSE ToUpperCase(<<trimmed[1]>>)

\* what a loop that returns the first matching child returns: the first of
\* the matches, or Null
FirstOf(matches) == IF matches = <<>> THEN Null ELSE matches[1]

\* findVariantGroup(contentFrame, letter)
FindVariantGroup(d, contentFrame, letter) ==
    FirstOf(SelectSeq(d[contentFrame].kids,
                      LAMBDA c : d[c].type = "FRAME" /\ ToUpperCase(d[c].name) = letter))

\* getVariantGroups(contentFrame): the frames whose trimmed name is one letter
GetVariantGroups(d, contentFrame) ==
    SelectSeq(d[contentFrame].kids,
              LAMBDA c : d[c].type = "FRAME" /\ IsSingleLetter(d[c].name))

\* the existing "content" frame of a target, or Null
FindContentFrame(d, targetFrame) ==
    FirstOf(SelectSeq(d[targetFrame].kids,
                      LAMBDA c : d[c].type = "FRAME" /\ ToLowerCase(d[c].name) = ContentName))

\* findOrCreateContentFrame(targetFrame): the document afterwards
FindOrCreateContentFrame(d, targetFrame) ==
    IF FindContentFrame(d, targetFrame) # Null THEN d
    ELSE AppendChild(CreateNode(d, Node("FRAME", ContentName, 0, 0)), targetFrame, NewId(d))

\* createVariantGroup(letter) after its font load: the frame NewId(d) with its
\* label NewId(d) + 1 as only child
CreateVariantGroup(d, letter) ==
    LET group == NewId(d)
        d1 == CreateNode(d, Node("FRAME", letter, 0, 0))
        d2 == CreateNode(d1, Node("TEXT", letter, 0, 0))
    IN  AppendChild(d2, group, group + 1)

\* a search that stops at the first key that is not less: the group put in
\* front of its namesakes C25 rules out
InsertIndexBeforeEqual(key, existingKeys) ==
    IF \E i \in 1..Len(existingKeys) : ~StrLess(existingKeys[i], key)
    THEN (CHOOSE i \in 1..Len(existingKeys) :
              /\ ~StrLess(existingKeys[i], key)
              /\ \A j \in 1..(i - 1) : StrLess(existingKeys[j], key)) - 1
    ELSE Len(existingKeys)

\* the loops of both insert functions: the 0-based index of the first existing
\* key the new key is strictly less than, or the number of existing keys
InsertIndex(key, existingKeys) ==
    IF \E i \in 1..Len(existingKeys) : StrLess(key, existingKeys[i])
    THEN (CHOOSE i \in 1..Len(existingKeys) :
              /\ StrLess(key, existingKeys[i])
              /\ \A j \in 1..(i - 1) : ~StrLess(key, existingKeys[j])) - 1
    ELSE Len(existingKeys)

\* insertVariantGroupAlphabetically(targetFrame, newGroup, letter)
InsertVariantGroupAlphabetically(d, targetFrame, newGroup, letter) ==
    LET existingGroups == GetVariantGroups(d, targetFrame)
        insertIndex == InsertIndex(ToUpperCase(letter),
                           [i \in 1..Len(existingGroups) |->
                               ToUpperCase(d[existingGroups[i]].name)])
    IN  IF insertIndex = 0
        THEN IF existingGroups # <<>>
             THEN InsertChild(d, targetFrame,
                              IndexOf(d[targetFrame].kids, existingGroups[1]), newGroup)
             ELSE AppendChild(d, targetFrame, newGroup)
        ELSE IF insertIndex >= Len(existingGroups)
        THEN AppendChild(d, targetFrame, newGroup)
        ELSE InsertChild(d, targetFrame,
                         IndexOf(d[targetFrame].kids, existingGroups[insertIndex + 1]),
                         newGroup)

\* an insertion that compares the names as written, without toLowerCase: the
\* case-sensitive order C2 rules out
InsertComponentSetCaseSensitive(d, variantGroup, componentSet, productName) ==
    LET existingSets == SelectSeq(d[variantGroup].kids,
                                  LAMBDA c : d[c].type = "COMPONENT_SET")
        insertIndex == InsertIndex(productName,
                           [i \in 1..Len(existingSets) |-> d[existingSets[i]].name])
        d1 == AppendChild(d, variantGroup, componentSet)
    IN  IF insertIndex < Len(existingSets)
        THEN InsertChild(d1, variantGroup,
                         IndexOf(d1[variantGroup].kids, existingSets[insertIndex + 1]),
                         componentSet)
        ELSE d1

\* an insertion that takes the index among the sets for the index among the
\* children: the set in front of the label C7 rules out
InsertComponentSetAtSetIndex(d, variantGroup, componentSet, productName) ==
    LET existingSets == SelectSeq(d[variantGroup].kids,
                                  LAMBDA c : d[c].type = "COMPONENT_SET")
        insertIndex == InsertIndex(ToLowerCase(productName),
                           [i \in 1..Len(existingSets) |->
                               ToLowerCase(d[existingSets[i]].name)])
        d1 == AppendChild(d, variantGroup, componentSet)
    IN  IF insertIndex < Len(existingSets)
        THEN InsertChild(d1, variantGroup, insertIndex, componentSet)
        ELSE d1

\* insertComponentSetAlphabetically(variantGroup, componentSet, productName)
InsertComponentSetAlphabetically(d, variantGroup, componentSet, productName) ==
    LET existingSets == SelectSeq(d[variantGroup].kids,
                                  LAMBDA c : d[c].type = "COMPONENT_SET")
        insertIndex == InsertIndex(ToLowerCase(productName),
                           [i \in 1..Len(existingSets) |->
                               ToLowerCase(d[existingSets[i]].name)])
        d1 == AppendChild(d, variantGroup, componentSet)
    IN  IF insertIndex < Len(existingSets)
        THEN InsertChild(d1, variantGroup,
                         IndexOf(d1[variantGroup].kids, existingSets[insertIndex + 1]),
                         componentSet)
        ELSE d1

\* ------------------------------------------------------------- core helpers
\* hasAnySelection(config); selectionId[s] stands for selectionAId..selectionDId
HasAnySelection(config) == \E s \in Slots : config.selectionId[s] # Null

\* resolveSelectionId(source, config)
ResolveSelectionId(source, config) ==
    IF source \in Slots THEN config.selectionId[source] ELSE Null

\* A backgroundColor option is <<>> for null and <<hex>> for a string hex.
\* the options object of the i-th createVariant call of CREATE_COMPONENT_SET
VariantOptions(config, i) ==
    CASE i = 1 -> [width |-> 315, height |-> 140, padding |-> 8, size |-> "315x140-BG",
                   backgroundColor |-> <<config.backgroundColor>>,
                   backgroundShape |-> "square",
                   colorOverride |-> <<>>,
                   sourceId |-> ResolveSelectionId(config.bgVariantSource, config)]
      [] i = 2 -> [width |-> 300, height |-> 100, padding |-> 0, size |-> "300x100-Light-NoBg",
                   backgroundColor |-> <<>>,
                   colorOverride |-> IF config.lightModeBlack THEN <<"black">> ELSE <<>>,
                   sourceId |-> ResolveSelectionId(config.lightVariantSource, config)]
      [] i = 3 -> [width |-> 300, height |-> 100, padding |-> 0, size |-> "300x100-Dark-NoBg",
                   backgroundColor |-> <<>>,
                   colorOverride |-> IF config.darkModeWhite THEN <<"white">> ELSE <<>>,
                   sourceId |-> ResolveSelectionId(config.darkVariantSource, config)]
      [] i = 4 /\ config.faviconHasBackground = TRUE ->
                  [width |-> 100, height |-> 100, padding |-> 20, size |-> "100x100-Favicon",
                   backgroundColor |-> <<config.backgroundColor>>,
                   backgroundShape |-> config.faviconBackgroundShape,
                   colorOverride |-> <<>>,
                   sourceId |-> ResolveSelectionId(config.faviconVariantSource, config)]
      [] i = 4 /\ config.faviconHasBackground # TRUE ->
                  [width |-> 100, height |-> 100, padding |-> 20, size |-> "100x100-Favicon",
                   backgroundColor |-> <<>>,
                   colorOverride |-> <<>>,
                   sourceId |-> ResolveSelectionId(config.faviconVariantSource, config)]

\* the options object of the i-th createTextVariant call of CREATE_TEXT_LOGO
TextVariantOptions(config, i) ==
    CASE i = 1 -> [width |-> 315, height |-> 140, padding |-> 8, size |-> "315x140-BG",
                   backgroundColor |-> <<config.backgroundColor>>,
                   backgroundShape |-> "square",
                   sourceId |-> Null]
      [] i = 2 -> [width |-> 300, height |-> 100, padding |-> 0, size |-> "300x100-Light-NoBg",
                   backgroundColor |-> <<>>,
                   sourceId |-> Null]
      [] i = 3 -> [width |-> 300, height |-> 100, padding |-> 0, size |-> "300x100-Dark-NoBg",
                   backgroundColor |-> <<>>,
                   sourceId |-> Null]
      [] i = 4 -> [width |-> 100, height |-> 100, padding |-> 20, size |-> "100x100-Favicon",
                   backgroundColor |-> IF config.faviconHasBackground
                                       THEN <<config.backgroundColor>>
                                       ELSE <<>>,
                   backgroundShape |-> config.faviconBackgroundShape,
                   sourceId |-> Null]

\* a createVariant without the check of its source node: the build that goes
\* on without a source C9 rules out
CreateVariantNeverThrows(d, options) == FALSE

\* createVariant throws "Source node not found or cannot be cloned"
CreateVariantThrows(d, options) == GetNodeById(d, options.sourceId) = Null

\* a builder that insets every variant by 16 whatever its role: the one
\* padding for all roles C15 rules out
PaddingFixed(options) == 16

\* const padding = options.padding ?? 16
PaddingOf(options) ==
    IF "padding" \in DOMAIN options THEN options.padding ELSE 16

Min(a, b) == IF a < b THEN a ELSE b

\* if (options.backgroundColor) { ... }: the Background rectangles the
\* builder appends to the component, none when the colour is null or ""
Background(options) ==
    IF options.backgroundColor # <<>> /\ options.backgroundColor[1] # <<>>
    THEN <<[w |-> options.width, h |-> options.height,
            cornerRadius |-> IF options.backgroundShape = "circle"
                             THEN Min(options.width, options.height) \div 2
                             ELSE 0]>>
    ELSE <<>>

\* createVariant / createTextVariant: the component NewId(d), named
\* Product=<productName>, Size=<size>
CreateVariant(d, options, productName) ==
    CreateNode(d, [Node("COMPONENT", productName, options.width, options.height)
                      EXCEPT !.size = options.size,
                             !.padding = PaddingOf(options),
                             !.background = Background(options),
                             !.source = options.sourceId])

\* the ids the validation of CREATE_COMPONENT_SET requires to be set
RequiredSourceIds(config) ==
    <<ResolveSelectionId(config.bgVariantSource, config),
      ResolveSelectionId(config.lightVariantSource, config),
      ResolveSelectionId(config.darkVariantSource, config)>>
    \o (IF config.faviconHasBackground = FALSE
        THEN <<>>
        ELSE <<ResolveSelectionId(config.faviconVariantSource, config)>>)

\* figma.combineAsVariants(variants, figma.currentPage), then the name
CombineAsVariants(d, variants, productName) ==
    LET set == NewId(d)
        d1 == CreateNode(d, Node("COMPONENT_SET", productName, 0, 0))
        d2 == [n \in 1..Len(d1) |->
                  [d1[n] EXCEPT !.kids = SelectSeq(@, LAMBDA c :
                                             \A i \in 1..Len(variants) : variants[i] # c)]]
    IN  [d2 EXCEPT ![set].kids = variants]

\* ----------------------------------------------------------------- numbers
\* A number is an exact fraction <<numerator, denominator>> in lowest terms
\* with a positive denominator; rounding of the host's doubles is not modelled.
Abs(a) == IF a < 0 THEN -a ELSE a

RECURSIVE GCD(_, _)
GCD(a, b) == IF b = 0 THEN a ELSE GCD(b, a % b)

Rat(n, d) ==
    LET g == GCD(Abs(n), Abs(d))
        s == IF d < 0 THEN -1 ELSE 1
    IN  <<(s * n) \div g, (s * d) \div g>>

RatOf(i) == <<i, 1>>
RatMul(a, b) == Rat(a[1] * b[1], a[2] * b[2])
RatDiv(a, b) == Rat(a[1] * b[2], a[2] * b[1])
RatSub(a, b) == Rat(a[1] * b[2] - b[1] * a[2], a[2] * b[2])
RatLeq(a, b) == a[1] * b[2] <= b[1] * a[2]
RatMin(a, b) == IF RatLeq(a, b) THEN a ELSE b
\* Math.floor
Floor(a) == a[1] \div a[2]

\* ---------------------------------------------------------------- geometry
\* The node a builder works on: its size and position, whether the host gives
\* it rescale(), the calls that changed it, and whether the host threw.
NoClone ==
    [w |-> RatOf(1), h |-> RatOf(1), x |-> RatOf(0), y |-> RatOf(0),
     hasRescale |-> TRUE, calls |-> <<>>, thrown |-> FALSE]

\* node.rescale(scale) and node.resize(width, height): the host refuses a
\* size that is not positive
HostScale(node, call, scale) ==
    IF RatLeq(scale, RatOf(0))
    THEN [node EXCEPT !.thrown = TRUE]
    ELSE [node EXCEPT !.w = RatMul(@, scale), !.h = RatMul(node.h, scale),
                      !.calls = Append(@, call)]

\* a fit that looks at the width only: the node higher than its box that
\* C21 rules out
ScaleToFitWidth(node, maxWidth, maxHeight, padding) ==
    HostScale(node, "rescale", RatDiv(RatOf(maxWidth - padding * 2), node.w))

\* scaleToFit(node, maxWidth, maxHeight, padding)
ScaleToFit(node, maxWidth, maxHeight, padding) ==
    LET availableWidth == maxWidth - padding * 2
        availableHeight == maxHeight - padding * 2
        scaleX == RatDiv(RatOf(availableWidth), node.w)
        scaleY == RatDiv(RatOf(availableHeight), node.h)
        scale == RatMin(scaleX, scaleY)
    IN  IF scale = RatOf(1) THEN node
        ELSE IF node.hasRescale THEN HostScale(node, "rescale", scale)
        ELSE HostScale(node, "resize", scale)

\* a centering that moves the node by the free space instead of to it: the
\* second application that moves the node again, which C22 rules out
CenterByOffset(node, parentWidth, parentHeight) ==
    [node EXCEPT !.x = RatSub(RatDiv(RatSub(RatOf(parentWidth), node.w), RatOf(2)), @),
                 !.y = RatSub(RatDiv(RatSub(RatOf(parentHeight), node.h), RatOf(2)), @),
                 !.calls = Append(@, "center")]

\* centerInParent(node, parentWidth, parentHeight)
CenterInParent(node, parentWidth, parentHeight) ==
    [node EXCEPT !.x = RatDiv(RatSub(RatOf(parentWidth), node.w), RatOf(2)),
                 !.y = RatDiv(RatSub(RatOf(parentHeight), node.h), RatOf(2)),
                 !.calls = Append(@, "center")]

\* textNode.width and textNode.height at a font size: the host lays the text
\* out anew, in proportion to the box it has at size 200
Measure(node, fontSize) ==
    [node EXCEPT !.fontSize = fontSize,
                 !.w = Rat(node.width200 * fontSize, 200),
                 !.h = Rat(node.height200 * fontSize, 200),
                 !.calls = Append(@, "fontSize")]

\* textNode.fontSize = fontSize: the host refuses a size below 1
SetFontSize(node, fontSize) ==
    IF fontSize < 1 THEN [node EXCEPT !.thrown = TRUE] ELSE Measure(node, fontSize)

\* a sizing that centers the text by the box it had at size 200: the stale
\* measurement C23 rules out
FitTextStale(node, width, height, padding) ==
    LET atInitial == SetFontSize(node, 200)
        scale == RatMin(RatDiv(RatOf(width - padding * 2), atInitial.w),
                        RatDiv(RatOf(height - padding * 2), atInitial.h))
        atFinal == SetFontSize(atInitial, Floor(RatMul(RatOf(200), scale)))
    IN  IF atFinal.thrown THEN atFinal
        ELSE [atFinal EXCEPT !.x = RatDiv(RatSub(RatOf(width), atInitial.w), RatOf(2)),
                             !.y = RatDiv(RatSub(RatOf(height), atInitial.h), RatOf(2))]

\* createTextVariant from "Scale text to fit" to "Center text in component"
FitText(node, width, height, padding) ==
    LET availableWidth == width - padding * 2
        availableHeight == height - padding * 2
        initialFontSize == 200
        atInitial == SetFontSize(node, initialFontSize)
        scaleX == RatDiv(RatOf(availableWidth), atInitial.w)
        scaleY == RatDiv(RatOf(availableHeight), atInitial.h)
        scale == RatMin(scaleX, scaleY)
        finalFontSize == Floor(RatMul(RatOf(initialFontSize), scale))
        atFinal == SetFontSize(atInitial, finalFontSize)
    IN  IF atFinal.thrown THEN atFinal
        ELSE [atFinal EXCEPT !.x = RatDiv(RatSub(RatOf(width), atFinal.w), RatOf(2)),
                             !.y = RatDiv(RatSub(RatOf(height), atFinal.h), RatOf(2))]

\* ------------------------------------------------------------------- tasks
NewTask(msg) ==
    [kind |-> msg.name, pc |-> "start", config |-> msg.arg, variants |-> <<>>,
     componentSet |-> Null, contentFrame |-> Null, variantGroup |-> Null,
     node |-> Null, focused |-> FALSE, notes |-> <<>>]

Terminal == {"done", "failed", "rejected"}

CreateKinds == {"CREATE_COMPONENT_SET", "CREATE_TEXT_LOGO"}

\* messages of one of the kinds, dispatched so far
Dispatched(kinds) ==
    Cardinality({i \in 1..Len(inbox) : inbox[i].name \in kinds})
    + Cardinality({i \in 1..Len(tasks) : tasks[i].kind \in kinds})

\* the handler on the loop is a create handler at pc
At(kinds, pc) ==
    /\ running # 0
    /\ tasks[running].kind \in kinds
    /\ tasks[running].pc = pc

\* figma.notify(text) by the running handler
Notify(t, text) == [t EXCEPT !.notes = Append(@, text)]

ErrSource == "Error: Source node not found or cannot be cloned"
ErrFont == "Error: font load rejected"
ErrRemoved == "Error: node does not exist"

\* -------------------------------------------------------------------- Init
\* The page holds two vectors the user can select (2, 3) and one top-level
\* frame (4) the panel lists as target location.
VectorA == 2
VectorB == 3
TargetFrame == 4

\* the colour and shape fields as useState leaves them: "FFFFFF" and
\* "EEEEEE", both shapes square
DefaultForm ==
    [backgroundColor |-> <<70, 70, 70, 70, 70, 70>>,
     faviconBackgroundShape |-> "square",
     textBackgroundColor |-> <<69, 69, 69, 69, 69, 69>>,
     textFaviconBackgroundShape |-> "square",
     lightModeBlack |-> FALSE,
     darkModeWhite |-> FALSE]

\* the storage of the host holds no value, or <<settings>>
Undefined == <<>>

\* defaultSettings of the core
DefaultSettings ==
    [bgVariantSource |-> "A",
     lightVariantSource |-> "A",
     darkVariantSource |-> "A",
     faviconVariantSource |-> "B",
     lightModeBlack |-> FALSE,
     darkModeWhite |-> FALSE,
     faviconHasBackground |-> FALSE,
     faviconBackgroundShape |-> "square"]

\* the storage of the host and the panel's variant sources and favicon
\* switch as the panel starts with them; its other settings are in the form
NoSettings ==
    [stored |-> Undefined,
     opened |-> Undefined,
     mounted |-> FALSE,
     served |-> <<>>,
     sources |-> <<"A", "A", "A", "B">>,
     faviconHasBackground |-> FALSE]

\* the previews the panel shows for the slots it holds: none, or <<the
\* picture of the captured node>>
PreviewOf(held) == [s \in DOMAIN held |-> IF held[s] = 0 THEN <<>> ELSE <<held[s]>>]

InitDoc ==
    <<[Node("PAGE", <<80>>, 0, 0) EXCEPT !.kids = <<VectorA, VectorB, TargetFrame>>],
      Node("VECTOR", <<108>>, 630, 140),
      Node("VECTOR", <<109>>, 50, 50),
      Node("FRAME", <<84>>, 0, 0)>>

Init ==
    /\ doc = InitDoc
    /\ selection = [s \in Slots |-> Null]
    /\ productNameError = FALSE
    /\ textProductNameError = FALSE
    /\ inbox = <<>>
    /\ toPanel = <<>>
    /\ tasks = <<>>
    /\ running = 0
    /\ clicks = 0
    /\ form = DefaultForm
    /\ preview = PreviewOf(selection)
    /\ settings = NoSettings
    /\ clone = NoClone

\* ------------------------------------------------------------------- panel
\* The panel posts from its own context; the core sees a message only when its
\* loop is idle, so a message posted while a handler runs is modelled as posted
\* at the handler's next await or return (running = 0).
\* what the user may have typed as component set name: "", " ", " Ab "
NameInputs == {<<>>, <<32>>, <<32, 65, 98, 32>>}

\* the variant sources the user may have chosen, as <<bg, light, dark, favicon>>
SourceInputs == {<<"A", "A", "A", "B">>, <<"A", "A", "A", "A">>}

\* handleGrabSelectionA..D
HandleGrabSelection(slot) ==
    /\ running = 0
    /\ inbox' = Append(inbox, [name |-> "GRAB_SELECTION", arg |-> [slot |-> slot]])
    /\ UNCHANGED <<form, preview, settings, clone, doc, selection, productNameError, textProductNameError,
                   toPanel, tasks, running, clicks>>

\* a LogoConfig with the name as typed: the untrimmed name C8 rules out
LogoConfigUntrimmed(productName, sources, faviconHasBackground, selectedFrameId) ==
    [productName |-> productName,
     bgVariantSource |-> sources[1],
     lightVariantSource |-> sources[2],
     darkVariantSource |-> sources[3],
     faviconVariantSource |-> sources[4],
     faviconHasBackground |-> faviconHasBackground,
     backgroundColor |-> form.backgroundColor,
     faviconBackgroundShape |-> form.faviconBackgroundShape,
     lightModeBlack |-> form.lightModeBlack,
     darkModeWhite |-> form.darkModeWhite,
     selectionId |-> selection,
     targetFrameId |-> selectedFrameId]

\* the LogoConfig handleCreateComponentSet builds from the panel state
LogoConfigOf(productName, sources, faviconHasBackground, selectedFrameId) ==
    [productName |-> Trim(productName),
     bgVariantSource |-> sources[1],
     lightVariantSource |-> sources[2],
     darkVariantSource |-> sources[3],
     faviconVariantSource |-> sources[4],
     faviconHasBackground |-> faviconHasBackground,
     backgroundColor |-> form.backgroundColor,
     faviconBackgroundShape |-> form.faviconBackgroundShape,
     lightModeBlack |-> form.lightModeBlack,
     darkModeWhite |-> form.darkModeWhite,
     selectionId |-> selection,
     targetFrameId |-> selectedFrameId]

\* a handleCreateComponentSet without the check of the name: the blank request
\* sent on to the core C10 rules out
HandleCreateComponentSetUnchecked(productName, sources, faviconHasBackground, selectedFrameId) ==
    /\ running = 0
    /\ clicks' = clicks + 1
    /\ productNameError' = FALSE
    /\ IF \A s \in Slots : selection[s] = Null
       THEN UNCHANGED inbox
       ELSE inbox' = Append(inbox,
                [name |-> "CREATE_COMPONENT_SET",
                 arg |-> LogoConfigOf(productName, sources,
                                      faviconHasBackground, selectedFrameId)])
    /\ UNCHANGED <<form, preview, settings, clone, doc, selection, textProductNameError, toPanel, tasks, running>>

\* a handleCreateComponentSet without the check of the captured slots: the
\* request without any source that C19 rules out
HandleCreateComponentSetUnselected(productName, sources, faviconHasBackground, selectedFrameId) ==
    /\ running = 0
    /\ clicks' = clicks + 1
    /\ IF Trim(productName) = <<>>
       THEN /\ productNameError' = TRUE
            /\ UNCHANGED inbox
       ELSE /\ productNameError' = FALSE
            /\ inbox' = Append(inbox,
                   [name |-> "CREATE_COMPONENT_SET",
                    arg |-> LogoConfigOf(productName, sources,
                                         faviconHasBackground, selectedFrameId)])
    /\ UNCHANGED <<form, preview, settings, clone, doc, selection, textProductNameError, toPanel, tasks, running>>

\* handleCreateComponentSet with the form fields as the user left them.  A
\* non-blank name typed into the field has cleared productNameError.
HandleCreateComponentSet(productName, sources, faviconHasBackground, selectedFrameId) ==
    /\ running = 0
    /\ clicks' = clicks + 1
    /\ IF Trim(productName) = <<>>
       THEN /\ productNameError' = TRUE
            /\ UNCHANGED inbox
       ELSE /\ productNameError' = FALSE
            /\ IF \A s \in Slots : selection[s] = Null
               THEN UNCHANGED inbox
               ELSE inbox' = Append(inbox,
                        [name |-> "CREATE_COMPONENT_SET",
                         arg |-> LogoConfigOf(productName, sources,
                                              faviconHasBackground, selectedFrameId)])
    /\ UNCHANGED <<form, preview, settings, clone, doc, selection, textProductNameError, toPanel, tasks, running>>

\* the TextLogoConfig handleCreateTextLogo builds from the panel state
TextLogoConfigOf(textProductName, faviconHasBackground, selectedFrameId) ==
    [productName |-> Trim(textProductName),
     faviconHasBackground |-> faviconHasBackground,
     backgroundColor |-> form.textBackgroundColor,
     faviconBackgroundShape |-> form.textFaviconBackgroundShape,
     targetFrameId |-> selectedFrameId]

\* handleCreateTextLogo
HandleCreateTextLogo(textProductName, faviconHasBackground, selectedFrameId) ==
    /\ running = 0
    /\ clicks' = clicks + 1
    /\ IF Trim(textProductName) = <<>>
       THEN /\ textProductNameError' = TRUE
            /\ UNCHANGED inbox
       ELSE /\ textProductNameError' = FALSE
            /\ inbox' = Append(inbox,
                   [name |-> "CREATE_TEXT_LOGO",
                    arg |-> TextLogoConfigOf(textProductName, faviconHasBackground,
                                             selectedFrameId)])
    /\ UNCHANGED <<form, preview, settings, clone, doc, selection, productNameError, toPanel, tasks, running>>

\* a listener that takes the selection of a message without image data and
\* leaves the preview alone: the slot with a selection and no preview C30
\* rules out
OnSelectionUpdateWithoutImage ==
    /\ toPanel # <<>>
    /\ LET slot == Head(toPanel).slot
           info == Head(toPanel).info
       IN  /\ selection' = IF ~info.isNull
                           THEN [selection EXCEPT ![slot] = info.id]
                           ELSE selection
           /\ preview' = IF ~info.isNull /\ info.imageData
                         THEN [preview EXCEPT ![slot] = <<info.id>>]
                         ELSE preview
    /\ toPanel' = Tail(toPanel)
    /\ UNCHANGED <<form, settings, clone, doc, productNameError, textProductNameError, inbox, tasks, running, clicks>>

\* the panel's SELECTION_UPDATE listener
OnSelectionUpdate ==
    /\ toPanel # <<>>
    /\ LET slot == Head(toPanel).slot
           info == Head(toPanel).info
       IN  /\ selection' = IF ~info.isNull /\ info.imageData
                           THEN [selection EXCEPT ![slot] = info.id]
                           ELSE selection
           /\ preview' = IF ~info.isNull /\ info.imageData
                         THEN [preview EXCEPT ![slot] = <<info.id>>]
                         ELSE preview
    /\ toPanel' = Tail(toPanel)
    /\ UNCHANGED <<form, settings, clone, doc, productNameError, textProductNameError, inbox, tasks, running, clicks>>

\* -------------------------------------------------------------------- core
\* The host hands the next message to its handler once the loop is idle.
CoreReceive ==
    /\ running = 0
    /\ inbox # <<>>
    /\ tasks' = Append(tasks, NewTask(Head(inbox)))
    /\ inbox' = Tail(inbox)
    /\ running' = Len(tasks) + 1
    /\ UNCHANGED <<form, preview, settings, clone, doc, selection, productNameError, textProductNameError, toPanel, clicks>>

\* CREATE_COMPONENT_SET: the validation
Validate ==
    /\ At({"CREATE_COMPONENT_SET"}, "start")
    /\ LET t == tasks[running]
           config == IF Trim(t.config.productName) = <<>>
                     THEN [t.config EXCEPT !.productName = DefaultProductName]
                     ELSE t.config
           t1 == [t EXCEPT !.config = config]
           ids == RequiredSourceIds(config)
       IN  IF ~HasAnySelection(config)
           THEN /\ tasks' = [tasks EXCEPT ![running] =
                       [Notify(t1, "Please select at least one element")
                           EXCEPT !.pc = "rejected"]]
                /\ running' = 0
           ELSE IF \E i \in 1..Len(ids) : ids[i] = Null
           THEN /\ tasks' = [tasks EXCEPT ![running] =
                       [Notify(t1, "Some variants require a selection that is not set")
                           EXCEPT !.pc = "rejected"]]
                /\ running' = 0
           ELSE /\ tasks' = [tasks EXCEPT ![running] = [t1 EXCEPT !.pc = "build"]]
                /\ UNCHANGED running
    /\ UNCHANGED <<form, preview, settings, clone, doc, selection, productNameError, textProductNameError, inbox, toPanel, clicks>>

\* a text handler that builds its hero variant and only then asks for the
\* typeface: the node created before the font is there that C17 rules out
BuildBeforeTypeface ==
    /\ At({"CREATE_TEXT_LOGO"}, "start")
    /\ doc' = CreateVariant(doc, TextVariantOptions(tasks[running].config, 1),
                            tasks[running].config.productName)
    /\ tasks' = [tasks EXCEPT ![running].pc = "awaitTypeface",
                              ![running].variants = <<NewId(doc)>>]
    /\ running' = 0
    /\ UNCHANGED <<form, preview, settings, clone, selection, productNameError, textProductNameError, inbox, toPanel, clicks>>

\* CREATE_TEXT_LOGO: await figma.loadFontAsync before anything is created
AwaitTypeface ==
    /\ At({"CREATE_TEXT_LOGO"}, "start")
    /\ tasks' = [tasks EXCEPT ![running].pc = "awaitTypeface"]
    /\ running' = 0
    /\ UNCHANGED <<form, preview, settings, clone, doc, selection, productNameError, textProductNameError, inbox, toPanel, clicks>>

\* a handler whose catch removes the variants built before the throw: the
\* rollback C27 rules out
BuildVariantRollingBack ==
    /\ At(CreateKinds, "build")
    /\ LET t == tasks[running]
           i == Len(t.variants) + 1
           options == IF t.kind = "CREATE_COMPONENT_SET"
                      THEN VariantOptions(t.config, i)
                      ELSE TextVariantOptions(t.config, i)
       IN  IF t.kind = "CREATE_COMPONENT_SET" /\ CreateVariantThrows(doc, options)
           THEN /\ tasks' = [tasks EXCEPT ![running] =
                       [Notify(t, ErrSource) EXCEPT !.pc = "failed"]]
                /\ running' = 0
                /\ doc' = LET built == {t.variants[j] : j \in 1..Len(t.variants)} IN
                          [n \in 1..Len(doc) |->
                              IF n \in built
                              THEN [doc[n] EXCEPT !.removed = TRUE]
                              ELSE [doc[n] EXCEPT !.kids =
                                       SelectSeq(@, LAMBDA c : c \notin built)]]
           ELSE /\ doc' = CreateVariant(doc, options, t.config.productName)
                /\ tasks' = [tasks EXCEPT ![running] =
                       [t EXCEPT !.variants = Append(@, NewId(doc)),
                                 !.pc = IF i = 4 THEN "assemble" ELSE "build"]]
                /\ UNCHANGED running
    /\ UNCHANGED <<form, preview, settings, clone, selection, productNameError, textProductNameError, inbox, toPanel, clicks>>

\* the next createVariant / createTextVariant call of a create handler; a
\* throw goes to the handler's catch, which notifies once
BuildVariant ==
    /\ At(CreateKinds, "build")
    /\ LET t == tasks[running]
           i == Len(t.variants) + 1
           options == IF t.kind = "CREATE_COMPONENT_SET"
                      THEN VariantOptions(t.config, i)
                      ELSE TextVariantOptions(t.config, i)
       IN  IF t.kind = "CREATE_COMPONENT_SET" /\ CreateVariantThrows(doc, options)
           THEN /\ tasks' = [tasks EXCEPT ![running] =
                       [Notify(t, ErrSource) EXCEPT !.pc = "failed"]]
                /\ running' = 0
                /\ UNCHANGED doc
           ELSE /\ doc' = CreateVariant(doc, options, t.config.productName)
                /\ tasks' = [tasks EXCEPT ![running] =
                       [t EXCEPT !.variants = Append(@, NewId(doc)),
                                 !.pc = IF i = 4 THEN "assemble" ELSE "build"]]
                /\ UNCHANGED running
    /\ UNCHANGED <<form, preview, settings, clone, selection, productNameError, textProductNameError, inbox, toPanel, clicks>>

\* a handler that goes from the assembled set to the focus and the success
\* notice: the placement left out C13 rules out
AssembleUnplaced ==
    /\ At(CreateKinds, "assemble")
    /\ LET t == tasks[running] IN
       /\ doc' = CombineAsVariants(doc, t.variants, t.config.productName)
       /\ tasks' = [tasks EXCEPT ![running] =
              [t EXCEPT !.componentSet = NewId(doc), !.pc = "focus"]]
    /\ UNCHANGED <<form, preview, settings, clone, selection, productNameError, textProductNameError, inbox, toPanel,
                   running, clicks>>

\* figma.combineAsVariants and the naming of the component set
Assemble ==
    /\ At(CreateKinds, "assemble")
    /\ LET t == tasks[running] IN
       /\ doc' = CombineAsVariants(doc, t.variants, t.config.productName)
       /\ tasks' = [tasks EXCEPT ![running] =
              [t EXCEPT !.componentSet = NewId(doc), !.pc = "place"]]
    /\ UNCHANGED <<form, preview, settings, clone, selection, productNameError, textProductNameError, inbox, toPanel,
                   running, clicks>>

\* a placement that takes a frame the user has removed for the target: the
\* index built in a missing target C11 rules out
TargetResolvesStale(d, targetFrameId) ==
    targetFrameId \in 1..Len(d) /\ d[targetFrameId].type = "FRAME"

\* figma.getNodeById(targetFrameId) gives a node, and it is a FRAME
TargetResolves(d, targetFrameId) ==
    GetNodeById(d, targetFrameId) # Null /\ d[targetFrameId].type = "FRAME"

\* a placement that leaves the set where the host put it: the missing move to
\* the origin C12 rules out
LeaveInPlace(d, componentSet) == d

\* componentSet.x = 0; componentSet.y = 0.  A node's position is "host" where
\* the host put it (on creation, or by the auto layout of its parent) and
\* "origin" once the code has set x and y to 0.
PlaceAtOrigin(d, componentSet) == [d EXCEPT ![componentSet].position = "origin"]

\* placeComponentSetInTarget up to its return or to the await in createVariantGroup
Place ==
    /\ At(CreateKinds, "place")
    /\ LET t == tasks[running]
           targetFrameId == t.config.targetFrameId
           targetNode == targetFrameId
       IN  IF targetFrameId = Null
           THEN /\ doc' = PlaceAtOrigin(doc, t.componentSet)
                /\ tasks' = [tasks EXCEPT ![running].pc = "focus"]
                /\ UNCHANGED running
           ELSE IF ~TargetResolves(doc, targetFrameId)
           THEN /\ doc' = PlaceAtOrigin(doc, t.componentSet)
                /\ tasks' = [tasks EXCEPT ![running] =
                       [Notify(t, "Target frame not found, placing at origin")
                           EXCEPT !.pc = "focus"]]
                /\ UNCHANGED running
           ELSE LET d1 == FindOrCreateContentFrame(doc, targetNode)
                    contentFrame == FindContentFrame(d1, targetNode)
                    letter == GetVariantGroupLetter(t.config.productName)
                    variantGroup == FindVariantGroup(d1, contentFrame, letter)
                IN  IF variantGroup # Null
                    THEN /\ doc' = InsertComponentSetAlphabetically(
                                       d1, variantGroup, t.componentSet,
                                       t.config.productName)
                         /\ tasks' = [tasks EXCEPT ![running] =
                                [t EXCEPT !.contentFrame = contentFrame,
                                          !.variantGroup = variantGroup,
                                          !.pc = "focus"]]
                         /\ UNCHANGED running
                    ELSE /\ doc' = d1
                         /\ tasks' = [tasks EXCEPT ![running] =
                                [t EXCEPT !.contentFrame = contentFrame,
                                          !.pc = "awaitFont"]]
                         /\ running' = 0
    /\ UNCHANGED <<form, preview, settings, clone, selection, productNameError, textProductNameError, inbox, toPanel, clicks>>

\* the host resolves a pending figma.loadFontAsync: its handler continues
FontLoaded(r) ==
    /\ running = 0
    /\ tasks[r].pc \in {"awaitTypeface", "awaitFont"}
    /\ tasks' = [tasks EXCEPT ![r].pc =
           IF tasks[r].pc = "awaitTypeface" THEN "build" ELSE "createGroup"]
    /\ running' = r
    /\ UNCHANGED <<form, preview, settings, clone, doc, selection, productNameError, textProductNameError, inbox, toPanel, clicks>>

\* the host rejects a pending figma.loadFontAsync: the handler's catch notifies
FontRejected(r) ==
    /\ running = 0
    /\ tasks[r].pc \in {"awaitTypeface", "awaitFont"}
    /\ tasks' = [tasks EXCEPT ![r] = [Notify(tasks[r], ErrFont) EXCEPT !.pc = "failed"]]
    /\ UNCHANGED <<form, preview, settings, clone, doc, selection, productNameError, textProductNameError, inbox, toPanel,
                   running, clicks>>

\* a createVariantGroup whose failure is reported and then passed over: the
\* request that is told both of a failure and of a success C28 rules out
CreateGroupGoingOn ==
    /\ At(CreateKinds, "createGroup")
    /\ LET t == tasks[running]
           letter == GetVariantGroupLetter(t.config.productName)
           variantGroup == NewId(doc)
       IN  IF GetNodeById(doc, t.contentFrame) = Null
           THEN /\ doc' = CreateVariantGroup(doc, letter)
                /\ tasks' = [tasks EXCEPT ![running] =
                       [Notify(t, ErrRemoved) EXCEPT !.pc = "focus"]]
                /\ UNCHANGED running
           ELSE /\ doc' = InsertVariantGroupAlphabetically(
                              CreateVariantGroup(doc, letter), t.contentFrame,
                              variantGroup, letter)
                /\ tasks' = [tasks EXCEPT ![running] =
                       [t EXCEPT !.variantGroup = variantGroup, !.pc = "insertSet"]]
                /\ UNCHANGED running
    /\ UNCHANGED <<form, preview, settings, clone, selection, productNameError, textProductNameError, inbox, toPanel, clicks>>

\* the rest of createVariantGroup, then insertVariantGroupAlphabetically; the
\* host throws when the content frame was removed with its target meanwhile
CreateGroup ==
    /\ At(CreateKinds, "createGroup")
    /\ LET t == tasks[running]
           letter == GetVariantGroupLetter(t.config.productName)
           variantGroup == NewId(doc)
       IN  IF GetNodeById(doc, t.contentFrame) = Null
           THEN /\ doc' = CreateVariantGroup(doc, letter)
                /\ tasks' = [tasks EXCEPT ![running] =
                       [Notify(t, ErrRemoved) EXCEPT !.pc = "failed"]]
                /\ running' = 0
           ELSE /\ doc' = InsertVariantGroupAlphabetically(
                              CreateVariantGroup(doc, letter), t.contentFrame,
                              variantGroup, letter)
                /\ tasks' = [tasks EXCEPT ![running] =
                       [t EXCEPT !.variantGroup = variantGroup, !.pc = "insertSet"]]
                /\ UNCHANGED running
    /\ UNCHANGED <<form, preview, settings, clone, selection, productNameError, textProductNameError, inbox, toPanel, clicks>>

\* insertComponentSetAlphabetically into the bucket just created
InsertSet ==
    /\ At(CreateKinds, "insertSet")
    /\ LET t == tasks[running] IN
       /\ doc' = InsertComponentSetAlphabetically(doc, t.variantGroup, t.componentSet,
                                                  t.config.productName)
       /\ tasks' = [tasks EXCEPT ![running].pc = "focus"]
    /\ UNCHANGED <<form, preview, settings, clone, selection, productNameError, textProductNameError, inbox, toPanel,
                   running, clicks>>

\* figma.viewport.scrollAndZoomIntoView and the success notice
Focus ==
    /\ At(CreateKinds, "focus")
    /\ LET t == tasks[running] IN
       tasks' = [tasks EXCEPT ![running] =
           [Notify(t, IF t.kind = "CREATE_COMPONENT_SET"
                      THEN "Component set created!"
                      ELSE "Text logo component set created!")
               EXCEPT !.focused = TRUE, !.pc = "done"]]
    /\ running' = 0
    /\ UNCHANGED <<form, preview, settings, clone, doc, selection, productNameError, textProductNameError, inbox, toPanel, clicks>>

\* what figma.currentPage.selection may hold when a grab is handled
SelectionInputs == {<<>>, <<VectorA>>, <<VectorA, VectorB>>}

\* figma.group(selection, figma.currentPage): the group NewId(d)
GroupNodes(d, nodes) ==
    LET group == NewId(d)
        d1 == CreateNode(d, Node("GROUP", <<71>>, 0, 0))
        d2 == [n \in 1..Len(d1) |->
                  [d1[n] EXCEPT !.kids = SelectSeq(@, LAMBDA c :
                                             \A i \in 1..Len(nodes) : nodes[i] # c)]]
    IN  [d2 EXCEPT ![group].kids = nodes]

\* GRAB_SELECTION up to the await of node.exportAsync
GrabSelection(sel) ==
    /\ At({"GRAB_SELECTION"}, "start")
    /\ \A i \in 1..Len(sel) : GetNodeById(doc, sel[i]) # Null
    /\ LET t == tasks[running] IN
       IF Len(sel) = 0
       THEN /\ tasks' = [tasks EXCEPT ![running] =
                   [Notify(t, "Please select at least one element")
                       EXCEPT !.pc = "rejected"]]
            /\ UNCHANGED doc
       ELSE IF Len(sel) > 1
       THEN /\ doc' = GroupNodes(doc, sel)
            /\ tasks' = [tasks EXCEPT ![running] =
                   [Notify(t, "Grouped elements")
                       EXCEPT !.node = NewId(doc), !.pc = "awaitExport"]]
       ELSE /\ tasks' = [tasks EXCEPT ![running] =
                   [t EXCEPT !.node = sel[1], !.pc = "awaitExport"]]
            /\ UNCHANGED doc
    /\ running' = 0
    /\ UNCHANGED <<form, preview, settings, clone, selection, productNameError, textProductNameError, inbox, toPanel, clicks>>

\* a handler that reports every capture for slot A: the reply for another
\* slot than the one asked for that C18 rules out
ExportResolvedForSlotA(r) ==
    /\ running = 0
    /\ tasks[r].pc = "awaitExport"
    /\ toPanel' = Append(toPanel,
           [slot |-> "A",
            info |-> [isNull |-> FALSE, id |-> tasks[r].node,
                      name |-> doc[tasks[r].node].name, imageData |-> TRUE]])
    /\ tasks' = [tasks EXCEPT ![r].pc = "done"]
    /\ UNCHANGED <<form, preview, settings, clone, doc, selection, productNameError, textProductNameError, inbox, running, clicks>>

\* the host resolves node.exportAsync: SELECTION_UPDATE goes to the panel
ExportResolved(r) ==
    /\ running = 0
    /\ tasks[r].pc = "awaitExport"
    /\ toPanel' = Append(toPanel,
           [slot |-> tasks[r].config.slot,
            info |-> [isNull |-> FALSE, id |-> tasks[r].node,
                      name |-> doc[tasks[r].node].name, imageData |-> TRUE]])
    /\ tasks' = [tasks EXCEPT ![r].pc = "done"]
    /\ UNCHANGED <<form, preview, settings, clone, doc, selection, productNameError, textProductNameError, inbox, running, clicks>>

\* the host rejects node.exportAsync
ExportRejected(r) ==
    /\ running = 0
    /\ tasks[r].pc = "awaitExport"
    /\ tasks' = [tasks EXCEPT ![r] =
           [Notify(tasks[r], "Failed to generate preview image") EXCEPT !.pc = "failed"]]
    /\ UNCHANGED <<form, preview, settings, clone, doc, selection, productNameError, textProductNameError, inbox, toPanel,
                   running, clicks>>

\* ------------------------------------------------------------- environment
\* the nodes the user may delete from the document
Deletable == {VectorA}

\* n and the nodes below it
RECURSIVE Subtree(_, _)
Subtree(d, n) == {n} \cup UNION {Subtree(d, d[n].kids[i]) : i \in 1..Len(d[n].kids)}

\* The user deletes a node: it leaves its parent, and the ids of the node and
\* of the nodes below it no longer resolve.
DeleteNode(n) ==
    /\ running = 0
    /\ GetNodeById(doc, n) # Null
    /\ doc' = [m \in 1..Len(doc) |->
                  IF m \in Subtree(doc, n)
                  THEN [doc[m] EXCEPT !.removed = TRUE]
                  ELSE [doc[m] EXCEPT !.kids = Without(@, n)]]
    /\ UNCHANGED <<form, preview, settings, clone, selection, productNameError, textProductNameError, inbox, toPanel,
                   tasks, running, clicks>>

\* -------------------------------------------------------------------- Spec
\* The panel as opened, target location left at "": selections are grabbed,
\* nodes deleted, vector and text logos created at the origin.
Next ==
    \/ /\ Dispatched({"GRAB_SELECTION"}) < MaxGrabs
       /\ \E slot \in {"A", "B"} : HandleGrabSelection(slot)
    \/ /\ clicks < MaxCreates
       /\ \E productName \in NameInputs, sources \in SourceInputs,
             faviconHasBackground \in BOOLEAN :
             HandleCreateComponentSet(productName, sources, faviconHasBackground, Null)
    \/ /\ clicks < MaxCreates
       /\ \E textProductName \in NameInputs :
             HandleCreateTextLogo(textProductName, TRUE, Null)
    \/ OnSelectionUpdate
    \/ \E sel \in SelectionInputs : GrabSelection(sel)
    \/ \E r \in 1..Len(tasks) : ExportResolved(r)
    \/ \E r \in 1..Len(tasks) : ExportRejected(r)
    \/ \E n \in Deletable : DeleteNode(n)
    \/ CoreReceive
    \/ Validate
    \/ AwaitTypeface
    \/ BuildVariant
    \/ Assemble
    \/ Place
    \/ \E r \in 1..Len(tasks) : FontLoaded(r)
    \/ \E r \in 1..Len(tasks) : FontRejected(r)
    \/ Focus

Spec == Init /\ [][Next]_vars

\* ---------------------------------------------------------------- SpecPlace
\* Placement: slot A holds a captured vector, every variant takes slot A, and
\* the user creates component sets into the listed target frame.
InitPlace ==
    /\ doc = InitDoc
    /\ selection = [s \in Slots |-> IF s = "A" THEN VectorA ELSE Null]
    /\ productNameError = FALSE
    /\ textProductNameError = FALSE
    /\ inbox = <<>>
    /\ toPanel = <<>>
    /\ tasks = <<>>
    /\ running = 0
    /\ clicks = 0
    /\ form = DefaultForm
    /\ preview = PreviewOf(selection)
    /\ settings = NoSettings
    /\ clone = NoClone

\* the names the user places: "ab", "AC", "B", "_x"
PlaceNames == {<<97, 98>>, <<65, 67>>, <<66>>, <<95, 120>>}

NextPlace ==
    \/ /\ clicks < MaxPlacements
       /\ \E productName \in PlaceNames :
             HandleCreateComponentSet(productName, <<"A", "A", "A", "A">>, FALSE,
                                      TargetFrame)
    \/ CoreReceive
    \/ Validate
    \/ BuildVariant
    \/ Assemble
    \/ Place
    \/ \E r \in 1..Len(tasks) : FontLoaded(r)
    \/ \E r \in 1..Len(tasks) : FontRejected(r)
    \/ CreateGroup
    \/ InsertSet
    \/ Focus

SpecPlace == InitPlace /\ [][NextPlace]_vars

\* --------------------------------------------------------------- SpecTarget
\* Target location: slot A holds a captured vector, the user creates vector
\* and text logos with the target location left at "" or set to the listed
\* frame, and may delete that frame at any moment the loop is idle.
TargetNames == {<<66>>}

NextTarget ==
    \/ /\ clicks < MaxTargeted
       /\ \E productName \in TargetNames, selectedFrameId \in {Null, TargetFrame} :
             HandleCreateComponentSet(productName, <<"A", "A", "A", "A">>, FALSE,
                                      selectedFrameId)
    \/ /\ clicks < MaxTargeted
       /\ \E textProductName \in TargetNames, selectedFrameId \in {Null, TargetFrame} :
             HandleCreateTextLogo(textProductName, TRUE, selectedFrameId)
    \/ DeleteNode(TargetFrame)
    \/ CoreReceive
    \/ Validate
    \/ AwaitTypeface
    \/ BuildVariant
    \/ Assemble
    \/ Place
    \/ \E r \in 1..Len(tasks) : FontLoaded(r)
    \/ \E r \in 1..Len(tasks) : FontRejected(r)
    \/ CreateGroup
    \/ InsertSet
    \/ Focus

SpecTarget == InitPlace /\ [][NextTarget]_vars

\* ================================================================== claims
Range(s) == {s[i] : i \in 1..Len(s)}

\* the content holders of the target, the buckets in them, the sets of a bucket
ContentFrames ==
    {c \in Range(doc[TargetFrame].kids) :
        doc[c].type = "FRAME" /\ ToLowerCase(doc[c].name) = ContentName}

BucketsOf(c) == SelectSeq(doc[c].kids, LAMBDA b : doc[b].type = "FRAME")

Buckets == UNION {Range(BucketsOf(c)) : c \in ContentFrames}

SetsOf(b) == SelectSeq(doc[b].kids, LAMBDA n : doc[n].type = "COMPONENT_SET")

\* keys ascend: no later key is strictly less than an earlier one
Ascending(keys) ==
    \A i, j \in 1..Len(keys) : i < j => ~StrLess(keys[j], keys[i])

\* C1: after any placements into one target, for any product names, the
\* buckets of the content holder are in ascending order of their uppercased
\* letter.
C1_BucketsAscending ==
    \A c \in ContentFrames :
        Ascending([i \in 1..Len(BucketsOf(c)) |-> ToUpperCase(doc[BucketsOf(c)[i]].name)])

\* C2: after any placements into one target, the component sets of every
\* bucket are in ascending case-insensitive order of their names.
C2_SetsAscending ==
    \A b \in Buckets :
        Ascending([i \in 1..Len(SetsOf(b)) |-> ToLowerCase(doc[SetsOf(b)[i]].name)])

\* a bucket where a later set was placed in front of an earlier one whose name
\* differs in more than case
C2_Witness ==
    \E b \in Buckets : \E i \in 1..Len(SetsOf(b)) - 1 :
        /\ SetsOf(b)[i] > SetsOf(b)[i + 1]
        /\ StrLess(ToLowerCase(doc[SetsOf(b)[i]].name),
                   ToLowerCase(doc[SetsOf(b)[i + 1]].name))

\* the handlers the core has started and not finished
InFlight == {r \in 1..Len(tasks) : tasks[r].pc \notin Terminal}

\* C4: create and grab requests never overlap: while one request is between
\* its start and its terminal state, also suspended at an await, the core
\* handles no other request.
C4_NoOverlap == Cardinality(InFlight) <= 1

\* C5: a target holds at most one content holder, a content holder at most
\* one bucket per letter, and nothing the placements created is deleted.
C5_IndexUnique ==
    /\ Cardinality(ContentFrames) <= 1
    /\ \A c \in ContentFrames : \A i, j \in 1..Len(BucketsOf(c)) :
           ToUpperCase(doc[BucketsOf(c)[i]].name) = ToUpperCase(doc[BucketsOf(c)[j]].name)
               => i = j
    /\ \A n \in 1..Len(doc) : n > Len(InitDoc) => ~doc[n].removed

\* old is what is left of new when the children that were not in old are dropped
KeepsOrder(old, new) ==
    /\ Range(old) \subseteq Range(new)
    /\ \A i, j \in 1..Len(old) :
           i < j => IndexOf(new, old[i]) < IndexOf(new, old[j])

\* C6: a placement leaves the relative order of the existing children of the
\* content holder and of the receiving bucket unchanged, and does not touch
\* the children of any other bucket.
C6_PositionStable ==
    [][/\ \A c \in ContentFrames : KeepsOrder(doc[c].kids, doc'[c].kids)
       /\ \A b \in Buckets : KeepsOrder(doc[b].kids, doc'[b].kids)
       /\ Cardinality({b \in Buckets : doc'[b].kids # doc[b].kids}) <= 1]_vars

\* a bucket was inserted in front of an older bucket, and a set in front of
\* an older set of its bucket
C6_Witness ==
    /\ \E c \in ContentFrames : \E i \in 1..Len(BucketsOf(c)) - 1 :
           BucketsOf(c)[i] > BucketsOf(c)[i + 1]
    /\ \E b \in Buckets : \E i \in 1..Len(SetsOf(b)) - 1 :
           SetsOf(b)[i] > SetsOf(b)[i + 1]

\* C7: in every bucket the letter label is the first child and stays the
\* first child: no component set is ever inserted before it.
C7_LabelFirst ==
    \A b \in Buckets :
        /\ doc[b].kids # <<>>
        /\ doc[doc[b].kids[1]].type = "TEXT"
        /\ \A i \in 2..Len(doc[b].kids) : doc[doc[b].kids[i]].type = "COMPONENT_SET"

\* a set was inserted in front of every older set of its bucket
C7_Witness ==
    \E b \in Buckets :
        /\ Len(doc[b].kids) >= 3
        /\ doc[doc[b].kids[1]].type = "TEXT"
        /\ doc[b].kids[2] > doc[b].kids[3]

\* the create requests for a component set from selections the core has taken up
ComponentSetTasks == {r \in 1..Len(tasks) : tasks[r].kind = "CREATE_COMPONENT_SET"}

\* the node the i-th variant of a request is cloned from, Null when none resolves
SourceNode(config, i) == GetNodeById(doc, VariantOptions(config, i).sourceId)

\* C3: when the slot chosen for any of the four variants holds no selection,
\* CREATE_COMPONENT_SET ends at its validation with one notice, whatever the
\* favicon-background toggle: no variant and no component set is created.
C3_MissingSlotRejected ==
    \A r \in ComponentSetTasks :
        LET t == tasks[r] IN
        (/\ t.pc # "start"
         /\ \E i \in 1..4 : VariantOptions(t.config, i).sourceId = Null)
        => /\ t.pc = "rejected"
           /\ Len(t.notes) = 1
           /\ t.variants = <<>>
           /\ t.componentSet = Null

\* width, height and role of the four variants, in their order in the set
VariantShapes ==
    <<[w |-> 315, h |-> 140, size |-> "315x140-BG"],
      [w |-> 300, h |-> 100, size |-> "300x100-Light-NoBg"],
      [w |-> 300, h |-> 100, size |-> "300x100-Dark-NoBg"],
      [w |-> 100, h |-> 100, size |-> "100x100-Favicon"]>>

\* the request sent carries the name the user typed, trimmed
SendsTrimmedName ==
    \A productName \in NameInputs, sources \in SourceInputs,
       faviconHasBackground \in BOOLEAN :
        (/\ HandleCreateComponentSet(productName, sources, faviconHasBackground, Null)
         /\ inbox' # inbox)
        => /\ Trim(productName) # <<>>
           /\ inbox'[Len(inbox')].arg.productName = Trim(productName)

\* the component set of request r is named as the request says and owns the
\* four variants in their order
OwnsFourVariants(r) ==
    LET t == tasks[r]
        set == t.componentSet
    IN  /\ set # Null
        /\ doc[set].type = "COMPONENT_SET"
        /\ doc[set].name = t.config.productName
        /\ doc[set].kids = t.variants
        /\ Len(t.variants) = 4
        /\ \A i \in 1..4 :
               /\ doc[t.variants[i]].type = "COMPONENT"
               /\ doc[t.variants[i]].w = VariantShapes[i].w
               /\ doc[t.variants[i]].h = VariantShapes[i].h
               /\ doc[t.variants[i]].size = VariantShapes[i].size
               /\ doc[t.variants[i]].source = VariantOptions(t.config, i).sourceId

\* C8: with four resolved sources and a non-blank name, CREATE_COMPONENT_SET
\* ends done with exactly one component set, named with the trimmed name, that
\* owns 4 variants in the order hero 315x140, light 300x100, dark 300x100,
\* favicon 100x100.
C8_OneSetOfFour ==
    /\ [][SendsTrimmedName]_vars
    /\ [](\A r \in ComponentSetTasks :
            (/\ tasks[r].pc \in Terminal
             /\ \A i \in 1..4 : SourceNode(tasks[r].config, i) # Null)
            => /\ tasks[r].pc = "done"
               /\ OwnsFourVariants(r)
               /\ Cardinality({n \in 1..Len(doc) :
                      /\ doc[n].type = "COMPONENT_SET"
                      /\ Range(doc[n].kids) \cap Range(tasks[r].variants) # {}}) = 1)

\* a request typed as " Ab " is done: the set is named "Ab" and owns 4 variants
C8_Witness ==
    \E r \in ComponentSetTasks :
        /\ tasks[r].pc = "done"
        /\ doc[tasks[r].componentSet].name = <<65, 98>>
        /\ Len(doc[tasks[r].componentSet].kids) = 4

\* the handler on the loop takes its next step, the build of a variant whose
\* source does not resolve
BuildsUnresolved(r) ==
    /\ running = r
    /\ tasks[r].kind = "CREATE_COMPONENT_SET"
    /\ tasks[r].pc = "build"
    /\ SourceNode(tasks[r].config, Len(tasks[r].variants) + 1) = Null
    /\ <<doc, tasks, running>>' # <<doc, tasks, running>>

\* C9: when the source of a variant does not resolve as the variant is built,
\* the request ends failed there, with exactly one failure notice, no success
\* notice and no component set.
C9_UnresolvedSourceFails ==
    /\ [][\A r \in 1..Len(tasks) :
            BuildsUnresolved(r)
            => /\ tasks'[r].pc = "failed"
               /\ tasks'[r].notes = Append(tasks[r].notes, ErrSource)
               /\ doc' = doc]_vars
    /\ [](\A r \in ComponentSetTasks :
            tasks[r].pc = "failed"
            => /\ tasks[r].notes = <<ErrSource>>
               /\ tasks[r].componentSet = Null
               /\ \A n \in 1..Len(doc) :
                      doc[n].type = "COMPONENT_SET"
                      => Range(doc[n].kids) \cap Range(tasks[r].variants) = {})

\* the vector captured in slot A was deleted, and the request that took it as
\* source has failed with the one notice
C9_Witness ==
    \E r \in ComponentSetTasks :
        /\ tasks[r].pc = "failed"
        /\ tasks[r].notes = <<ErrSource>>
        /\ tasks[r].config.selectionId["A"] = VectorA
        /\ doc[VectorA].removed

\* a click on Create with a blank name shows the error and sends nothing
BlankNameStopsAtPanel ==
    \A productName \in NameInputs :
        Trim(productName) = <<>>
        => /\ \A sources \in SourceInputs, faviconHasBackground \in BOOLEAN :
                  HandleCreateComponentSet(productName, sources, faviconHasBackground, Null)
                  => productNameError' /\ UNCHANGED <<inbox, tasks, doc>>
           /\ HandleCreateTextLogo(productName, TRUE, Null)
                  => textProductNameError' /\ UNCHANGED <<inbox, tasks, doc>>

\* no create request at the core, and nothing the core has built, has a blank
\* name or the name the core gives a request without one
NoBlankNameAtCore ==
    /\ \A i \in 1..Len(inbox) :
           inbox[i].name \in CreateKinds => Trim(inbox[i].arg.productName) # <<>>
    /\ \A r \in 1..Len(tasks) :
           tasks[r].kind \in CreateKinds
           => /\ Trim(tasks[r].config.productName) # <<>>
              /\ tasks[r].config.productName # DefaultProductName
    /\ \A n \in 1..Len(doc) :
           doc[n].type \in {"COMPONENT", "COMPONENT_SET"}
           => Trim(doc[n].name) # <<>> /\ doc[n].name # DefaultProductName

\* C10: a create with an empty or whitespace-only name is rejected with a
\* visible error before anything is built, in the vector and in the text flow:
\* the core receives no such request and creates no node for it.
C10_BlankNameRejected == [][BlankNameStopsAtPanel]_vars /\ []NoBlankNameAtCore

\* the error is shown after a click, and the core has been asked for nothing
C10_Witness ==
    /\ productNameError
    /\ clicks > 0
    /\ Dispatched(CreateKinds) = 0
    /\ \A n \in 1..Len(doc) : doc[n].type \notin {"COMPONENT", "COMPONENT_SET"}

\* the handler on the loop takes its next step, the placement of its set
Places(r) ==
    /\ running = r
    /\ tasks[r].kind \in CreateKinds
    /\ tasks[r].pc = "place"
    /\ <<doc, tasks, running>>' # <<doc, tasks, running>>

TargetNotice == "Target frame not found, placing at origin"

\* the success notice of a create handler
SuccessNotice(kind) ==
    IF kind = "CREATE_COMPONENT_SET" THEN "Component set created!"
    ELSE "Text logo component set created!"

\* the frames that hold node n as a child
FramesHolding(n) ==
    {f \in 1..Len(doc) : doc[f].type = "FRAME" /\ n \in Range(doc[f].kids)}

\* C11: when the target given no longer resolves, the placement notifies, puts
\* the set at the origin of the page and creates no content holder and no
\* bucket; the create still ends done, with the focus and the success notice.
C11_MissingTargetFallsBack ==
    /\ [][\A r \in 1..Len(tasks) :
            (/\ Places(r)
             /\ tasks[r].config.targetFrameId # Null
             /\ GetNodeById(doc, tasks[r].config.targetFrameId) = Null)
            => /\ doc' = [doc EXCEPT ![tasks[r].componentSet].position = "origin"]
               /\ tasks'[r].notes = Append(tasks[r].notes, TargetNotice)
               /\ tasks'[r].pc = "focus"]_vars
    /\ [](\A r \in 1..Len(tasks) :
            (tasks[r].kind \in CreateKinds /\ tasks[r].notes # <<>>
             /\ tasks[r].notes[1] = TargetNotice)
            => /\ tasks[r].pc \in {"focus", "done"}
               /\ doc[tasks[r].componentSet].position = "origin"
               /\ tasks[r].componentSet \in Range(doc[PageId].kids)
               /\ FramesHolding(tasks[r].componentSet) = {}
               /\ tasks[r].pc = "done"
                  => /\ tasks[r].focused
                     /\ tasks[r].notes = <<TargetNotice, SuccessNotice(tasks[r].kind)>>)

\* the target frame was deleted, and a create that named it is done at the origin
C11_Witness ==
    \E r \in 1..Len(tasks) :
        /\ tasks[r].kind = "CREATE_COMPONENT_SET"
        /\ tasks[r].pc = "done"
        /\ tasks[r].config.targetFrameId = TargetFrame
        /\ doc[TargetFrame].removed
        /\ tasks[r].notes = <<TargetNotice, "Component set created!">>
        /\ doc[tasks[r].componentSet].position = "origin"

\* C12: without a target the placement puts the set at the origin of the page
\* and does nothing else: no frame gains a content holder, a bucket or a child.
C12_NoTargetAtOrigin ==
    /\ [][\A r \in 1..Len(tasks) :
            (Places(r) /\ tasks[r].config.targetFrameId = Null)
            => /\ doc' = [doc EXCEPT ![tasks[r].componentSet].position = "origin"]
               /\ tasks'[r].notes = tasks[r].notes
               /\ tasks'[r].pc = "focus"]_vars
    /\ [](\A r \in 1..Len(tasks) :
            (/\ tasks[r].kind \in CreateKinds
             /\ tasks[r].config.targetFrameId = Null
             /\ tasks[r].pc \in {"focus", "done"})
            => /\ doc[tasks[r].componentSet].position = "origin"
               /\ tasks[r].componentSet \in Range(doc[PageId].kids)
               /\ FramesHolding(tasks[r].componentSet) = {})

\* a create without target is done at the origin while the listed frame holds
\* the index another create has built in it
C12_Witness ==
    /\ ContentFrames # {}
    /\ Buckets # {}
    /\ \E r \in 1..Len(tasks) :
           /\ tasks[r].kind \in CreateKinds
           /\ tasks[r].pc = "done"
           /\ tasks[r].config.targetFrameId = Null
           /\ doc[tasks[r].componentSet].position = "origin"

\* the create requests, of either flow, the core has taken up
CreateTasks == {r \in 1..Len(tasks) : tasks[r].kind \in CreateKinds}

\* how far a create handler has come
Stage(pc) ==
    CASE pc = "start" -> 0
      [] pc = "awaitTypeface" -> 1
      [] pc = "build" -> 2
      [] pc = "assemble" -> 3
      [] pc = "place" -> 4
      [] pc = "awaitFont" -> 5
      [] pc = "createGroup" -> 6
      [] pc = "insertSet" -> 7
      [] pc = "focus" -> 8
      [] pc = "done" -> 9
      [] OTHER -> 10

\* the placement of the set of request t has finished, in the branch it took
PlacementFinished(t) ==
    IF t.config.targetFrameId = Null \/ (t.notes # <<>> /\ t.notes[1] = TargetNotice)
    THEN doc[t.componentSet].position = "origin"
    ELSE /\ t.variantGroup # Null
         /\ t.componentSet \in Range(doc[t.variantGroup].kids)

\* what a create request shows of its past, in every state
InStageOrder(t) ==
    /\ Len(t.variants) <= 4
    /\ \A i \in 1..Len(t.variants) :
           /\ doc[t.variants[i]].size = VariantShapes[i].size
           /\ i > 1 => t.variants[i - 1] < t.variants[i]
    /\ Stage(t.pc) < 2 => t.variants = <<>>
    /\ t.pc = "build" => Len(t.variants) < 4
    /\ t.componentSet # Null
       => /\ Len(t.variants) = 4
          /\ doc[t.componentSet].kids = t.variants
          /\ \A i \in 1..4 : t.variants[i] < t.componentSet
    /\ Stage(t.pc) \in 4..9 => t.componentSet # Null
    /\ (t.contentFrame # Null \/ t.variantGroup # Null
        \/ \E i \in 1..Len(t.notes) : t.notes[i] = TargetNotice)
       => t.componentSet # Null
    /\ (t.focused \/ \E i \in 1..Len(t.notes) : t.notes[i] = SuccessNotice(t.kind))
       => /\ t.pc = "done"
          /\ t.focused
          /\ t.notes[Len(t.notes)] = SuccessNotice(t.kind)
          /\ t.componentSet # Null
          /\ PlacementFinished(t)

\* C13: a create goes through validating, building, assembling, placing and
\* done in this order: the variants are built hero, light, dark, favicon, are
\* combined only when all four exist, the placement starts only on the
\* assembled set, and focus and success notice come only after the placement
\* has finished, in each of its branches.
C13_StageOrder ==
    /\ [][\A r \in CreateTasks : Stage(tasks'[r].pc) >= Stage(tasks[r].pc)]_vars
    /\ [](\A r \in CreateTasks : InStageOrder(tasks[r]))

\* one create is done in a bucket of the target, another at the origin after
\* the target was deleted
C13_Witness ==
    /\ \E r \in CreateTasks :
           /\ tasks[r].pc = "done"
           /\ tasks[r].variantGroup # Null
           /\ tasks[r].componentSet \in Range(doc[tasks[r].variantGroup].kids)
    /\ \E r \in CreateTasks :
           /\ tasks[r].pc = "done"
           /\ tasks[r].notes[1] = TargetNotice

\* ---------------------------------------------------------------- SpecOrder
\* Two listed frames: the user creates component sets into one or the other,
\* each time after the notice of the create before has come.  The bold font
\* of the bucket labels loads.
TargetFrame2 == 5

InitOrder ==
    /\ doc = [n \in 1..(Len(InitDoc) + 1) |->
                 IF n = PageId THEN [InitDoc[PageId] EXCEPT !.kids = Append(@, TargetFrame2)]
                 ELSE IF n = TargetFrame2 THEN Node("FRAME", <<85>>, 0, 0)
                 ELSE InitDoc[n]]
    /\ selection = [s \in Slots |-> IF s = "A" THEN VectorA ELSE Null]
    /\ productNameError = FALSE
    /\ textProductNameError = FALSE
    /\ inbox = <<>>
    /\ toPanel = <<>>
    /\ tasks = <<>>
    /\ running = 0
    /\ clicks = 0
    /\ form = DefaultForm
    /\ preview = PreviewOf(selection)
    /\ settings = NoSettings
    /\ clone = NoClone

\* the names the user places: "B", "ab", "AB", "_x"
OrderNames == {<<66>>, <<97, 98>>, <<65, 66>>, <<95, 120>>}

NextOrder ==
    \/ /\ clicks < MaxOrdered
       /\ InFlight = {}
       /\ inbox = <<>>
       /\ \E productName \in OrderNames, selectedFrameId \in {TargetFrame, TargetFrame2} :
             HandleCreateComponentSet(productName, <<"A", "A", "A", "A">>, FALSE,
                                      selectedFrameId)
    \/ CoreReceive
    \/ Validate
    \/ BuildVariant
    \/ Assemble
    \/ Place
    \/ \E r \in 1..Len(tasks) : FontLoaded(r)
    \/ CreateGroup
    \/ InsertSet
    \/ Focus

SpecOrder == InitOrder /\ [][NextOrder]_vars

\* the names of the sequence of nodes
NamesOf(nodes) == [i \in 1..Len(nodes) |-> doc[nodes[i]].name]

\* what a target shows: per content holder its buckets in order, per bucket
\* its name and the names of its sets in order
Arrangement(target) ==
    LET holders == SelectSeq(doc[target].kids, LAMBDA c :
                       doc[c].type = "FRAME" /\ ToLowerCase(doc[c].name) = ContentName)
    IN  [h \in 1..Len(holders) |->
            LET buckets == SelectSeq(doc[holders[h]].kids, LAMBDA b : doc[b].type = "FRAME")
            IN  [i \in 1..Len(buckets) |->
                    <<doc[buckets[i]].name, NamesOf(SetsOf(buckets[i]))>>]]

\* the creates into a target that are done
PlacedIn(target) ==
    {r \in CreateTasks : tasks[r].config.targetFrameId = target /\ tasks[r].pc = "done"}

\* the names placed into a target, each placed there once
DistinctNamesIn(target) ==
    \A r1, r2 \in PlacedIn(target) :
        tasks[r1].config.productName = tasks[r2].config.productName => r1 = r2

\* C14: two targets that were empty and had the same pairwise distinct names
\* placed into them, one create after the other, in whatever order, show the
\* same buckets in the same order and the same sets in the same order in
\* each bucket.
C14_OrderIndependent ==
    (/\ InFlight = {}
     /\ \A r \in CreateTasks : tasks[r].pc = "done"
     /\ DistinctNamesIn(TargetFrame)
     /\ DistinctNamesIn(TargetFrame2)
     /\ {tasks[r].config.productName : r \in PlacedIn(TargetFrame)}
            = {tasks[r].config.productName : r \in PlacedIn(TargetFrame2)})
    => Arrangement(TargetFrame) = Arrangement(TargetFrame2)

\* the padding of the four roles, in the order of VariantShapes
VariantPaddings == <<8, 0, 0, 20>>

\* the variants of either flow that exist in the document
Variants == {n \in 1..Len(doc) : doc[n].type = "COMPONENT"}

\* the role whose size label the variant n carries
RoleOf(n) == CHOOSE i \in 1..4 : VariantShapes[i].size = doc[n].size

\* C15: every variant built by the vector flow or the text flow has the size
\* and the padding of its role (hero 315x140 padding 8, light and dark
\* 300x100 padding 0, favicon 100x100 padding 20), the i-th variant of a
\* request has the i-th role, and no variant has any other size or padding.
C15_RoleSizeAndPadding ==
    /\ \A n \in Variants :
          /\ \E i \in 1..4 : VariantShapes[i].size = doc[n].size
          /\ doc[n].w = VariantShapes[RoleOf(n)].w
          /\ doc[n].h = VariantShapes[RoleOf(n)].h
          /\ doc[n].padding = VariantPaddings[RoleOf(n)]
    /\ \A r \in CreateTasks : \A i \in 1..Len(tasks[r].variants) :
          RoleOf(tasks[r].variants[i]) = i

\* a text request that has built its four variants, the favicon last
C15_Witness ==
    \E r \in CreateTasks :
        /\ tasks[r].kind = "CREATE_TEXT_LOGO"
        /\ Len(tasks[r].variants) = 4
        /\ doc[tasks[r].variants[1]].padding = 8
        /\ doc[tasks[r].variants[4]].padding = 20

\* ---------------------------------------------------------------- SpecBuild
\* Backgrounds: slot A holds a captured vector, the user edits the colour and
\* shape fields of the two tabs and creates vector and text logos with the
\* favicon background switched on or off.
\* what a colour field may hold: the default of its tab, or "" once cleared
ColorInputs == {DefaultForm.backgroundColor, DefaultForm.textBackgroundColor, <<>>}

FormInputs ==
    [backgroundColor : {c \in ColorInputs : c # DefaultForm.textBackgroundColor},
     faviconBackgroundShape : {"square", "circle"},
     textBackgroundColor : {c \in ColorInputs : c # DefaultForm.backgroundColor},
     textFaviconBackgroundShape : {"square", "circle"},
     lightModeBlack : {DefaultForm.lightModeBlack},
     darkModeWhite : {DefaultForm.darkModeWhite}]

\* setBackgroundColor, setFaviconBackgroundShape, setTextBackgroundColor,
\* setTextFaviconBackgroundShape: the user edits one field
EditForm(edited) ==
    /\ running = 0
    /\ Cardinality({k \in DOMAIN form : edited[k] # form[k]}) = 1
    /\ form' = edited
    /\ UNCHANGED <<preview, settings, clone, doc, selection, productNameError, textProductNameError,
                   inbox, toPanel, tasks, running, clicks>>

NextBuild ==
    \/ \E edited \in FormInputs : EditForm(edited)
    \/ /\ clicks < MaxBuilt
       /\ \E faviconHasBackground \in BOOLEAN :
             HandleCreateComponentSet(<<66>>, <<"A", "A", "A", "A">>,
                                      faviconHasBackground, Null)
    \/ /\ clicks < MaxBuilt
       /\ \E faviconHasBackground \in BOOLEAN :
             HandleCreateTextLogo(<<66>>, faviconHasBackground, Null)
    \/ CoreReceive
    \/ Validate
    \/ AwaitTypeface
    \/ BuildVariant
    \/ Assemble
    \/ Place
    \/ \E r \in 1..Len(tasks) : FontLoaded(r)
    \/ \E r \in 1..Len(tasks) : FontRejected(r)
    \/ Focus

SpecBuild == InitPlace /\ [][NextBuild]_vars

\* the full-size rectangle of a w x h variant with the given corner radius
FullSize(w, h, cornerRadius) == <<[w |-> w, h |-> h, cornerRadius |-> cornerRadius]>>

\* the component groups either flow has produced
ProducedGroups == {r \in CreateTasks : tasks[r].componentSet # Null}

\* C16: in every component group of either flow the hero variant holds one
\* full-size background rectangle with corner radius 0, the light and the
\* dark variant hold none, and the favicon variant holds one full-size
\* background rectangle exactly if the favicon-background switch is on, with
\* corner radius 0 for the square shape and min(w, h) / 2 for the circle.
C16_Backgrounds ==
    \A r \in ProducedGroups :
        LET t == tasks[r]
            bg(i) == doc[t.variants[i]].background
        IN  /\ bg(1) = FullSize(315, 140, 0)
            /\ bg(2) = <<>>
            /\ bg(3) = <<>>
            /\ bg(4) = IF t.config.faviconHasBackground = TRUE
                       THEN FullSize(100, 100,
                                     IF t.config.faviconBackgroundShape = "circle"
                                     THEN 50 ELSE 0)
                       ELSE <<>>

\* the text requests
TextTasks == {r \in 1..Len(tasks) : tasks[r].kind = "CREATE_TEXT_LOGO"}

\* the request r has created nothing: no variant, no component group, no
\* content holder and no bucket
CreatedNothing(t) ==
    /\ t.variants = <<>>
    /\ t.componentSet = Null
    /\ t.contentFrame = Null
    /\ t.variantGroup = Null

\* the step in which the load of the typeface of the request r fails
TypefaceFails(r) ==
    /\ tasks[r].pc = "awaitTypeface"
    /\ tasks'[r].pc # "awaitTypeface"
    /\ tasks'[r].pc # "build"

\* C17: a text request has created nothing while it waits for the bold
\* typeface, the step that asks for the typeface creates no node, a failed
\* load ends the request as failed with exactly one failure notice and
\* without any node, and a failed request never changes again, so it never
\* gives the success notice.
C17_TypefaceFirst ==
    /\ [][\A r \in TextTasks :
            /\ (tasks[r].pc = "start" /\ tasks'[r].pc # "start")
                  => (tasks'[r].pc = "awaitTypeface" /\ doc' = doc)
            /\ TypefaceFails(r)
                  => /\ tasks'[r].pc = "failed"
                     /\ tasks'[r].notes = <<ErrFont>>
                     /\ CreatedNothing(tasks'[r])
                     /\ doc' = doc
            /\ tasks[r].pc = "failed" => tasks'[r] = tasks[r]]_vars
    /\ [](\A r \in TextTasks :
            /\ tasks[r].pc \in {"start", "awaitTypeface"}
                  => (CreatedNothing(tasks[r]) /\ tasks[r].notes = <<>>)
            /\ tasks[r].pc = "failed"
                  => SuccessNotice("CREATE_TEXT_LOGO") \notin Range(tasks[r].notes))

\* a text request whose typeface was refused, next to a request that went on
C17_Witness ==
    \E r \in TextTasks :
        /\ tasks[r].pc = "failed"
        /\ tasks[r].notes = <<ErrFont>>
        /\ CreatedNothing(tasks[r])
        /\ \E q \in CreateTasks : q # r /\ tasks[q].variants # <<>>

\* the capture requests
GrabTasks == {r \in 1..Len(tasks) : tasks[r].kind = "GRAB_SELECTION"}

\* the request r reaches pc in this step
Reaches(r, pc) == tasks[r].pc # pc /\ tasks'[r].pc = pc

\* the step sends the one SELECTION_UPDATE of the request r: its slot, the id
\* and the name of the node it captured, and the preview
SendsUpdateOf(r) ==
    /\ Len(toPanel') = Len(toPanel) + 1
    /\ SubSeq(toPanel', 1, Len(toPanel)) = toPanel
    /\ LET update == toPanel'[Len(toPanel')]
       IN  /\ update.slot = tasks[r].config.slot
           /\ update.info.id = tasks[r].node
           /\ update.info.name = doc[tasks[r].node].name
           /\ update.info.imageData

\* the step captures the selected node itself, or the new group of the
\* selected nodes with the notice of the grouping
CapturesSelection(r) ==
    LET node == tasks'[r].node
    IN  \/ /\ doc' = doc
           /\ GetNodeById(doc, node) # Null
           /\ tasks'[r].notes = <<>>
        \/ /\ node = Len(doc) + 1
           /\ Len(doc') = Len(doc) + 1
           /\ doc'[node].type = "GROUP"
           /\ Len(doc'[node].kids) > 1
           /\ Len(tasks'[r].notes) = 1

\* C18: a capture with a non-empty selection takes the selected node, or the
\* new group of the selected nodes; when its export succeeds it sends exactly
\* one SELECTION_UPDATE with the slot asked for and the id and name of that
\* node; with nothing selected, or when the export fails, it gives a notice
\* and sends nothing; nothing else ever sends a message to the panel.
C18_GrabReplies ==
    [][/\ \A r \in GrabTasks :
            /\ Reaches(r, "awaitExport") => CapturesSelection(r)
            /\ Reaches(r, "done")
                  => (tasks[r].pc = "awaitExport" /\ SendsUpdateOf(r))
            /\ Reaches(r, "rejected")
                  => /\ tasks[r].pc = "start"
                     /\ tasks'[r].notes = <<"Please select at least one element">>
                     /\ toPanel' = toPanel /\ doc' = doc
            /\ Reaches(r, "failed")
                  => /\ tasks[r].pc = "awaitExport"
                     /\ tasks'[r].notes =
                            Append(tasks[r].notes, "Failed to generate preview image")
                     /\ toPanel' = toPanel
            /\ tasks[r].pc \in Terminal => tasks'[r] = tasks[r]
       /\ Len(toPanel') > Len(toPanel)
            => \E r \in GrabTasks : Reaches(r, "done")]_vars

\* a capture of two selected vectors for slot B whose group the panel holds
C18_Witness ==
    \E r \in GrabTasks :
        /\ tasks[r].pc = "done"
        /\ tasks[r].config.slot = "B"
        /\ doc[tasks[r].node].type = "GROUP"
        /\ selection["B"] = tasks[r].node

\* the config invariant of a create message: a name that is not blank, and
\* for CREATE_COMPONENT_SET at least one captured slot
ValidCreate(name, config) ==
    /\ Trim(config.productName) # <<>>
    /\ name = "CREATE_COMPONENT_SET" => \E s \in Slots : config.selectionId[s] # Null

\* the create messages dispatched so far: those waiting and those taken
CreateMessages ==
    {<<inbox[i].name, inbox[i].arg>> :
        i \in {j \in 1..Len(inbox) : inbox[j].name \in CreateKinds}}
    \cup {<<tasks[r].kind, tasks[r].config>> : r \in CreateTasks}

\* C19: every create message the panel has dispatched carries a name that is
\* non-empty after trimming and, for CREATE_COMPONENT_SET, at least one
\* non-null selection id; a press of a create button dispatches one such
\* message or nothing.
C19_ValidCreateOnly ==
    /\ [](\A m \in CreateMessages : ValidCreate(m[1], m[2]))
    /\ [][clicks' # clicks
            => \/ inbox' = inbox
               \/ /\ Len(inbox') = Len(inbox) + 1
                  /\ SubSeq(inbox', 1, Len(inbox)) = inbox
                  /\ LET m == inbox'[Len(inbox')]
                     IN  m.name \in CreateKinds /\ ValidCreate(m.name, m.arg)]_vars

\* a vector request dispatched with slot A captured and slot B empty
C19_Witness ==
    \E m \in CreateMessages :
        /\ m[1] = "CREATE_COMPONENT_SET"
        /\ m[2].selectionId["A"] # Null
        /\ m[2].selectionId["B"] = Null

\* ---------------------------------------------------------------- SpecColor
\* Recolouring: applyColorToAllFills on the nodes of a frame that holds a
\* group with a vector, and a text whose fills are mixed.
\* "fills" in node
HasFills(node) == node.type \notin {"PAGE", "GROUP"}

\* fills.map(fill => fill.type === "SOLID" ? { ...fill, color } : fill)
MapFills(fills, color) ==
    [i \in 1..Len(fills) |->
        IF fills[i].type = "SOLID" THEN [fills[i] EXCEPT !.color = color] ELSE fills[i]]

\* a recolouring that gives every paint the colour, solid or not: the change
\* of paints that are not solid C20 rules out
ApplyColorToEveryPaint(d, node, color) ==
    [n \in 1..Len(d) |->
        IF n \in Subtree(d, node) /\ HasFills(d[n]) /\ ~d[n].mixed
        THEN [d[n] EXCEPT !.fills = [i \in 1..Len(@) |-> [@[i] EXCEPT !.color = color]]]
        ELSE d[n]]

RECURSIVE ApplyColorToAllFills(_, _, _)
\* applyColorToAllFills(node, color): the node, then its children in order
ApplyColorToAllFills(d, node, color) ==
    LET own == IF HasFills(d[node]) /\ ~d[node].mixed
               THEN [d EXCEPT ![node].fills = MapFills(@, color)]
               ELSE d
        each[i \in 0..Len(d[node].kids)] ==
            IF i = 0 THEN own
            ELSE ApplyColorToAllFills(each[i - 1], d[node].kids[i], color)
    IN  each[Len(d[node].kids)]

\* the paints a node may carry before it is recoloured
PaintInputs ==
    [type : {"SOLID"}, color : {"red"}, opacity : {50, 100}, visible : BOOLEAN]
    \cup [type : {"GRADIENT_LINEAR"}, color : {"none"}, opacity : {100}, visible : {TRUE}]

FillInputs == UNION {[1..n -> PaintInputs] : n \in 0..MaxFills}

\* the colours of the overrides: hexToRgb("#000000") and hexToRgb("#FFFFFF")
OverrideColors == {"black", "white"}

ColorFrame == 2
ColorGroup == 3
ColorVector == 4
ColorText == 5

ColorDoc(frameFills, vectorFills) ==
    <<[Node("PAGE", <<80>>, 0, 0) EXCEPT !.kids = <<ColorFrame>>],
      [Node("FRAME", <<84>>, 0, 0) EXCEPT !.kids = <<ColorGroup, ColorText>>,
                                          !.fills = frameFills],
      [Node("GROUP", <<71>>, 0, 0) EXCEPT !.kids = <<ColorVector>>],
      [Node("VECTOR", <<108>>, 50, 50) EXCEPT !.fills = vectorFills],
      [Node("TEXT", <<116>>, 50, 20) EXCEPT !.mixed = TRUE]>>

InitColor ==
    /\ \E frameFills \in FillInputs, vectorFills \in FillInputs :
           doc = ColorDoc(frameFills, vectorFills)
    /\ selection = [s \in Slots |-> Null]
    /\ productNameError = FALSE
    /\ textProductNameError = FALSE
    /\ inbox = <<>>
    /\ toPanel = <<>>
    /\ tasks = <<>>
    /\ running = 0
    /\ clicks = 0
    /\ form = DefaultForm
    /\ preview = PreviewOf(selection)
    /\ settings = NoSettings
    /\ clone = NoClone

\* a call applyColorToAllFills(node, color)
ApplyColor(node, color) ==
    /\ doc' = ApplyColorToAllFills(doc, node, color)
    /\ UNCHANGED <<form, preview, settings, clone, selection, productNameError, textProductNameError,
                   inbox, toPanel, tasks, running, clicks>>

NextColor ==
    \E node \in {ColorFrame, ColorGroup, ColorVector, ColorText}, color \in OverrideColors :
        ApplyColor(node, color)

SpecColor == InitColor /\ [][NextColor]_vars

\* the fills new are the fills old with the solid ones recoloured: as many
\* fills in the same order, every solid fill with the colour and its other
\* fields as they were, every other fill as it was
Recoloured(old, new, color) ==
    /\ Len(new) = Len(old)
    /\ \A i \in 1..Len(old) :
          IF old[i].type = "SOLID"
          THEN /\ new[i].type = "SOLID"
               /\ new[i].color = color
               /\ new[i].opacity = old[i].opacity
               /\ new[i].visible = old[i].visible
          ELSE new[i] = old[i]

\* the node that holds n as a child, 0 for the page
ParentOf(n) ==
    LET holders == {p \in 1..Len(doc) : \E i \in 1..Len(doc[p].kids) : doc[p].kids[i] = n}
    IN  IF holders = {} THEN Null ELSE CHOOSE p \in holders : TRUE

RECURSIVE IsBelow(_, _)
\* n is node or lies below it, by the way up from n
IsBelow(n, node) ==
    \/ n = node
    \/ ParentOf(n) # Null /\ IsBelow(ParentOf(n), node)

\* C20: a recolouring of a node with a colour changes the fills of the node
\* and of every node below it and nothing else: each solid fill gets the
\* colour and keeps its opacity and visibility, each fill that is not solid
\* stays as it was, and the number and the order of the fills stay.
C20_SolidFillsOnly ==
    [][doc' # doc
        => \E node \in 2..Len(doc), color \in OverrideColors :
              /\ Len(doc') = Len(doc)
              /\ \A n \in 1..Len(doc) :
                    /\ [doc'[n] EXCEPT !.fills = <<>>] = [doc[n] EXCEPT !.fills = <<>>]
                    /\ IF IsBelow(n, node)
                       THEN Recoloured(doc[n].fills, doc'[n].fills, color)
                       ELSE doc'[n].fills = doc[n].fills]_vars

\* the frame and the vector below it recoloured: a hidden half-transparent
\* solid fill now black, the gradient next to it untouched
C20_Witness ==
    /\ Len(doc) = ColorText
    /\ doc[ColorText].mixed
    /\ doc[ColorFrame].fills =
           <<[type |-> "SOLID", color |-> "black", opacity |-> 50, visible |-> FALSE],
             [type |-> "GRADIENT_LINEAR", color |-> "none", opacity |-> 100,
              visible |-> TRUE]>>
    /\ doc[ColorVector].fills =
           <<[type |-> "GRADIENT_LINEAR", color |-> "none", opacity |-> 100,
              visible |-> TRUE],
             [type |-> "SOLID", color |-> "black", opacity |-> 100, visible |-> TRUE]>>

\* ------------------------------------------------------------------ SpecFit
\* Fitting: scaleToFit and centerInParent applied, in any order and
\* repeatedly, to a node of any of a few sizes.
\* the width and the height a node may have
NodeSides == {50, 100, 300, 630}

\* <<maxWidth, maxHeight, padding>>: the three boxes of the variant roles, a
\* box whose padding leaves no room, and one whose padding exceeds it
FitBoxes ==
    {<<315, 140, 8>>, <<300, 100, 0>>, <<100, 100, 20>>, <<100, 100, 50>>, <<100, 100, 60>>}

\* <<parentWidth, parentHeight>>
ParentSizes == {<<315, 140>>, <<100, 100>>}

InitFit ==
    /\ doc = InitDoc
    /\ selection = [s \in Slots |-> Null]
    /\ productNameError = FALSE
    /\ textProductNameError = FALSE
    /\ inbox = <<>>
    /\ toPanel = <<>>
    /\ tasks = <<>>
    /\ running = 0
    /\ clicks = 0
    /\ form = DefaultForm
    /\ preview = PreviewOf(selection)
    /\ settings = NoSettings
    /\ \E w \in NodeSides, h \in NodeSides, hasRescale \in BOOLEAN :
           clone = [NoClone EXCEPT !.w = RatOf(w), !.h = RatOf(h),
                                   !.hasRescale = hasRescale]

\* a call scaleToFit(node, maxWidth, maxHeight, padding)
Fit(box) ==
    /\ ~clone.thrown
    /\ Len(clone.calls) < MaxCalls
    /\ clone' = ScaleToFit(clone, box[1], box[2], box[3])
    /\ UNCHANGED <<form, preview, settings, doc, selection, productNameError, textProductNameError,
                   inbox, toPanel, tasks, running, clicks>>

\* a call centerInParent(node, parentWidth, parentHeight)
Center(parent) ==
    /\ ~clone.thrown
    /\ Len(clone.calls) < MaxCalls
    /\ clone' = CenterInParent(clone, parent[1], parent[2])
    /\ UNCHANGED <<form, preview, settings, doc, selection, productNameError, textProductNameError,
                   inbox, toPanel, tasks, running, clicks>>

NextFit ==
    \/ \E box \in FitBoxes : Fit(box)
    \/ \E parent \in ParentSizes : Center(parent)

SpecFit == InitFit /\ [][NextFit]_vars

\* the node already fills the box in one direction and fits in the other:
\* the computed scale is exactly 1
FillsBox(node, box) ==
    LET availableWidth == RatOf(box[1] - 2 * box[3])
        availableHeight == RatOf(box[2] - 2 * box[3])
    IN  \/ node.w = availableWidth /\ RatLeq(node.h, availableHeight)
        \/ node.h = availableHeight /\ RatLeq(node.w, availableWidth)

\* after the step the node lies within the padded box with its aspect ratio,
\* and it is untouched if it filled the box before
FittedInto(box) ==
    /\ RatLeq(clone'.w, RatOf(box[1] - 2 * box[3]))
    /\ RatLeq(clone'.h, RatOf(box[2] - 2 * box[3]))
    /\ RatMul(clone'.w, clone.h) = RatMul(clone'.h, clone.w)
    /\ FillsBox(clone, box) => clone' = clone

\* the padding leaves room in both directions
Roomy(box) == 2 * box[3] < box[1] /\ 2 * box[3] < box[2]

\* C21 as stated: for a node of positive size and any box, after scaleToFit
\* the width is at most maxW - 2 * padding, the height at most
\* maxH - 2 * padding, width * H equals height * W, and a node whose scale is
\* exactly 1 is not touched.
C21_FitsAnyBox == [][\A box \in FitBoxes : Fit(box) => FittedInto(box)]_vars

\* C21 amended: the same for every box whose padding leaves room, that is
\* with 2 * padding below maxW and below maxH.
C21_FitsRoomyBox ==
    [][\A box \in FitBoxes : (Roomy(box) /\ Fit(box)) => FittedInto(box)]_vars

\* a node of 300 x 100 scaled down by its width into the favicon box
C21_Witness ==
    /\ clone.calls = <<"rescale">>
    /\ clone.w = RatOf(60)
    /\ clone.h = RatOf(20)
    /\ ~clone.thrown

\* C22: centerInParent puts the node at ((w - width) / 2, (h - height) / 2)
\* and leaves its width and height alone, so a second application with the
\* same parent size leaves the node where the first put it.
C22_CenterIdempotent ==
    [][\A parent \in ParentSizes :
          Center(parent)
          => /\ RatMul(clone'.x, RatOf(2)) = RatSub(RatOf(parent[1]), clone.w)
             /\ RatMul(clone'.y, RatOf(2)) = RatSub(RatOf(parent[2]), clone.h)
             /\ clone'.w = clone.w /\ clone'.h = clone.h
             /\ (/\ clone.calls # <<>>
                 /\ clone.calls[Len(clone.calls)] = "center"
                 /\ RatMul(clone.x, RatOf(2)) = RatSub(RatOf(parent[1]), clone.w)
                 /\ RatMul(clone.y, RatOf(2)) = RatSub(RatOf(parent[2]), clone.h))
                => (clone'.x = clone.x /\ clone'.y = clone.y)]_vars

\* a node wider than its parent, centered twice in a row at x = -157.5
C22_Witness ==
    /\ clone.calls = <<"center", "center">>
    /\ clone.w = RatOf(630)
    /\ clone.x = <<-315, 2>>
    /\ clone.y = RatOf(20)

\* ----------------------------------------------------------------- SpecText
\* Text sizing: the sizing of createTextVariant applied to a text node whose
\* box at size 200 is one of a few, once or again in another box.
\* the width of the text at size 200: "T", "Text logo", longer texts, and a
\* text too long for any size
TextWidths == {120, 500, 950, 1900, 3000, 6000, 20000}

\* the height of the text at size 200: one line, two lines
TextHeights == {242, 484}

\* <<width, height, padding>> of the four createTextVariant calls
TextBoxes == {<<315, 140, 8>>, <<300, 100, 0>>, <<100, 100, 20>>}

\* figma.createText(): font size 12 until the builder sets it
InitText ==
    /\ doc = InitDoc
    /\ selection = [s \in Slots |-> Null]
    /\ productNameError = FALSE
    /\ textProductNameError = FALSE
    /\ inbox = <<>>
    /\ toPanel = <<>>
    /\ tasks = <<>>
    /\ running = 0
    /\ clicks = 0
    /\ form = DefaultForm
    /\ preview = PreviewOf(selection)
    /\ settings = NoSettings
    /\ \E width200 \in TextWidths, height200 \in TextHeights :
           clone = [w |-> Rat(width200 * 12, 200), h |-> Rat(height200 * 12, 200),
                    x |-> RatOf(0), y |-> RatOf(0), fontSize |-> 12,
                    width200 |-> width200, height200 |-> height200,
                    calls |-> <<>>, thrown |-> FALSE]

\* the sizing of one createTextVariant call
SizeText(box) ==
    /\ ~clone.thrown
    /\ Len(clone.calls) < 2 * MaxCalls
    /\ clone' = FitText(clone, box[1], box[2], box[3])
    /\ UNCHANGED <<form, preview, settings, doc, selection, productNameError, textProductNameError,
                   inbox, toPanel, tasks, running, clicks>>

NextText == \E box \in TextBoxes : SizeText(box)

SpecText == InitText /\ [][NextText]_vars

\* n is floor(200 * min((w - 2p) / width200, (h - 2p) / height200))
IsFittedSize(n, box, width200, height200) ==
    LET availableWidth == box[1] - 2 * box[3]
        availableHeight == box[2] - 2 * box[3]
    IN  /\ n * width200 <= 200 * availableWidth
        /\ n * height200 <= 200 * availableHeight
        /\ \/ (n + 1) * width200 > 200 * availableWidth
           \/ (n + 1) * height200 > 200 * availableHeight

\* C23: a text variant that is built has the font size
\* floor(200 * min((w - 2p) / width at 200, (h - 2p) / height at 200)),
\* whatever size and position the text had before, and its text is centered
\* by the box the text has at that final size.
C23_FittedFontSize ==
    [][\A box \in TextBoxes :
          (SizeText(box) /\ ~clone'.thrown)
          => /\ IsFittedSize(clone'.fontSize, box, clone.width200, clone.height200)
             /\ clone'.w[1] * 200 = clone.width200 * clone'.fontSize * clone'.w[2]
             /\ clone'.h[1] * 200 = clone.height200 * clone'.fontSize * clone'.h[2]
             /\ RatMul(clone'.x, RatOf(2)) = RatSub(RatOf(box[1]), clone'.w)
             /\ RatMul(clone'.y, RatOf(2)) = RatSub(RatOf(box[2]), clone'.h)]_vars

\* "Text logo" sized for the favicon box after the hero box: size 12,
\* 57 wide, centered at x = 21.5
C23_Witness ==
    /\ "width200" \in DOMAIN clone
    /\ clone.width200 = 950
    /\ clone.height200 = 242
    /\ Len(clone.calls) = 4
    /\ clone.fontSize = 12
    /\ clone.w = RatOf(57)
    /\ clone.x = <<43, 2>>

\* the uppercased first character of the trimmed name, "A" for a blank name
BucketKey(productName) ==
    IF Trim(productName) = <<>> THEN <<65>>
    ELSE ToUpperCase(SubSeq(Trim(productName), 1, 1))

\* the requests whose group lies in a bucket of the target
PlacedInto(target) ==
    {r \in CreateTasks : /\ tasks[r].config.targetFrameId = target
                         /\ tasks[r].variantGroup # Null
                         /\ tasks[r].pc \in {"focus", "done"}}

\* the bucket that holds the group of the request r
BucketOf(r) ==
    {b \in 1..Len(doc) : /\ doc[b].type = "FRAME"
                         /\ tasks[r].componentSet \in Range(doc[b].kids)}

\* C24: with a resolvable target every group lies in exactly one bucket, whose
\* name is, ignoring case, the uppercased first character of the trimmed
\* product name, and two groups with the same key lie in the same bucket.
C24_BucketByFirstLetter ==
    \A target \in {TargetFrame, TargetFrame2} :
        /\ \A r \in PlacedInto(target) :
              /\ Cardinality(BucketOf(r)) = 1
              /\ \A b \in BucketOf(r) :
                    ToUpperCase(doc[b].name) = BucketKey(tasks[r].config.productName)
        /\ \A r, q \in PlacedInto(target) :
              BucketKey(tasks[r].config.productName) = BucketKey(tasks[q].config.productName)
              => BucketOf(r) = BucketOf(q)

\* ----------------------------------------------------------------- SpecTies
\* Namesakes: slot A holds a captured vector and the user places groups named
\* "ab", "AB" and "AC" into the listed frame, also while an earlier request
\* waits for the font of its bucket label.
TieNames == {<<97, 98>>, <<65, 66>>, <<65, 67>>}

NextTies ==
    \/ /\ clicks < MaxPlacements
       /\ \E productName \in TieNames :
             HandleCreateComponentSet(productName, <<"A", "A", "A", "A">>, FALSE,
                                      TargetFrame)
    \/ CoreReceive
    \/ Validate
    \/ BuildVariant
    \/ Assemble
    \/ Place
    \/ \E r \in 1..Len(tasks) : FontLoaded(r)
    \/ \E r \in 1..Len(tasks) : FontRejected(r)
    \/ CreateGroup
    \/ InsertSet
    \/ Focus

SpecTies == InitPlace /\ [][NextTies]_vars

\* the lowercased names of the groups of bucket b in document d, in order
SetNamesIn(d, b) ==
    LET sets == SelectSeq(d[b].kids, LAMBDA n : d[n].type = "COMPONENT_SET")
    IN  [i \in 1..Len(sets) |-> ToLowerCase(d[sets[i]].name)]

\* the position of the group n among the groups of bucket b in document d
SetPositionIn(d, b, n) ==
    LET sets == SelectSeq(d[b].kids, LAMBDA c : d[c].type = "COMPONENT_SET")
    IN  CHOOSE i \in 1..Len(sets) : sets[i] = n

\* the step puts the group of the request r into bucket b
InsertsInto(r, b) ==
    /\ tasks[r].componentSet # Null
    /\ doc[b].type = "FRAME"
    /\ tasks[r].componentSet \notin Range(doc[b].kids)
    /\ b <= Len(doc')
    /\ tasks[r].componentSet \in Range(doc'[b].kids)

\* C25: a group whose name equals, ignoring case, the name of a group already
\* in the bucket is inserted directly after the last group with that name and
\* before the first group whose name is greater; the groups that were there
\* keep their order.
C25_AfterNamesakes ==
    [][\A r \in CreateTasks : \A b \in 1..Len(doc) :
          LET name == ToLowerCase(tasks[r].config.productName)
              old == SetNamesIn(doc, b)
              new == SetNamesIn(doc', b)
              p == SetPositionIn(doc', b, tasks[r].componentSet)
          IN  (InsertsInto(r, b) /\ \E i \in 1..Len(old) : old[i] = name)
              => /\ Len(new) = Len(old) + 1
                 /\ p > 1
                 /\ new[p - 1] = name
                 /\ \A i \in (p + 1)..Len(new) : StrLess(name, new[i])
                 /\ \A i \in 1..(p - 1) : new[i] = old[i]
                 /\ \A i \in (p + 1)..Len(new) : new[i] = old[i - 1]]_vars

\* "ab", "AB" and "AC" in one bucket, "AB" placed last and lying between
C25_Witness ==
    \E b \in Buckets :
        /\ SetNamesIn(doc, b) = <<<<97, 98>>, <<97, 98>>, <<97, 99>>>>
        /\ LET sets == SetsOf(b)
           IN  /\ doc[sets[1]].name = <<97, 98>>
               /\ doc[sets[2]].name = <<65, 66>>
               /\ sets[2] > sets[1] /\ sets[2] > sets[3]

\* ---- createVariant, statement by statement

\* one hexadecimal digit, as parseInt(_, 16) reads its code unit
HexDigit(c) == IF c >= 97 THEN c - 87 ELSE IF c >= 65 THEN c - 55 ELSE c - 48

\* hexToRgb(hex): the three channels, in 255ths
HexToRgb(hex) ==
    LET h == IF hex[1] = 35 THEN Tail(hex) ELSE hex IN
    <<16 * HexDigit(h[1]) + HexDigit(h[2]),
      16 * HexDigit(h[3]) + HexDigit(h[4]),
      16 * HexDigit(h[5]) + HexDigit(h[6])>>

RECURSIVE CloneNode(_, _, _)
\* node.clone(): a copy of the node and of its children, put under parent
CloneNode(d, node, parent) ==
    LET id == NewId(d)
        own == [Append(d, [d[node] EXCEPT !.kids = <<>>])
                   EXCEPT ![parent].kids = Append(@, id)]
        each[i \in 0..Len(d[node].kids)] ==
            IF i = 0 THEN own
            ELSE CloneNode(each[i - 1], d[node].kids[i], id)
    IN  each[Len(d[node].kids)]

RECURSIVE SetScaleConstraintsRecursive(_, _)
\* setScaleConstraintsRecursive(node): the node, then its children in order
SetScaleConstraintsRecursive(d, node) ==
    LET own == [d EXCEPT ![node].locked = TRUE]
        each[i \in 0..Len(d[node].kids)] ==
            IF i = 0 THEN own
            ELSE SetScaleConstraintsRecursive(each[i - 1], d[node].kids[i])
    IN  each[Len(d[node].kids)]

RECURSIVE RemoveHiddenFills(_, _)
\* removeHiddenFills(node): the node, then its children in order
RemoveHiddenFills(d, node) ==
    LET own == IF HasFills(d[node]) /\ ~d[node].mixed
               THEN [d EXCEPT ![node].fills =
                        SelectSeq(@, LAMBDA fill : fill.visible # FALSE)]
               ELSE d
        each[i \in 0..Len(d[node].kids)] ==
            IF i = 0 THEN own
            ELSE RemoveHiddenFills(each[i - 1], d[node].kids[i])
    IN  each[Len(d[node].kids)]

\* the variants one run of the builder may make
MaxVariants == 1

VariantSource == 2
VariantSourceKid == 3

\* the page with the source of the variants: a vector, or a frame around it
VariantDoc(framed, fills) ==
    IF framed
    THEN <<[Node("PAGE", <<80>>, 0, 0) EXCEPT !.kids = <<VariantSource>>],
           [Node("FRAME", <<102>>, 630, 140)
               EXCEPT !.kids = <<VariantSourceKid>>,
                      !.fills = <<[type |-> "SOLID", color |-> "red",
                                   opacity |-> 100, visible |-> TRUE]>>],
           [Node("VECTOR", <<108>>, 600, 100) EXCEPT !.fills = fills]>>
    ELSE <<[Node("PAGE", <<80>>, 0, 0) EXCEPT !.kids = <<VariantSource>>],
           [Node("VECTOR", <<108>>, 630, 140) EXCEPT !.fills = fills]>>

InitVariant ==
    /\ \E framed \in BOOLEAN, fills \in FillInputs : doc = VariantDoc(framed, fills)
    /\ selection = [s \in Slots |-> IF s = "A" THEN VariantSource ELSE Null]
    /\ productNameError = FALSE
    /\ textProductNameError = FALSE
    /\ inbox = <<>>
    /\ toPanel = <<>>
    /\ tasks = <<>>
    /\ running = 0
    /\ clicks = 0
    /\ \E lightModeBlack \in BOOLEAN, darkModeWhite \in BOOLEAN :
           form = [DefaultForm EXCEPT !.lightModeBlack = lightModeBlack,
                                      !.darkModeWhite = darkModeWhite]
    /\ clone = [NoClone EXCEPT !.hasRescale = TRUE] @@ [pc |-> "idle"]
    /\ settings = NoSettings
    /\ preview = PreviewOf(selection)

\* createVariant up to the clone: the source is looked up, the component and
\* its background rectangle are made
BeginVariant(i, faviconHasBackground) ==
    LET config == LogoConfigOf(<<65>>, <<"A", "A", "A", "A">>, faviconHasBackground, Null)
        options == VariantOptions(config, i)
        component == NewId(doc)
        made == CreateVariant(doc, options, config.productName)
        bg == [Node("RECTANGLE", <<66>>, options.width, options.height)
                  EXCEPT !.fills = <<[type |-> "SOLID",
                                      color |-> HexToRgb(options.backgroundColor[1]),
                                      opacity |-> 100, visible |-> TRUE]>>,
                         !.locked = TRUE]
    IN  /\ clone.pc = "idle"
        /\ Cardinality({n \in 1..Len(doc) : doc[n].type = "COMPONENT"}) < MaxVariants
        /\ ~CreateVariantThrows(doc, options)
        /\ doc' = IF Background(options) # <<>>
                  THEN AppendChild(CreateNode(made, bg), component, NewId(made))
                  ELSE made
        /\ clone' = [NoClone EXCEPT !.hasRescale = TRUE]
                       @@ [pc |-> "clone", options |-> options, component |-> component]
        /\ UNCHANGED <<form, preview, settings, selection, productNameError, textProductNameError,
                       inbox, toPanel, tasks, running, clicks>>

\* const clone = sourceNode.clone(); a cloned frame loses its own fills
CloneSource ==
    LET source == clone.options.sourceId
        id == NewId(doc)
        copied == CloneNode(doc, source, PageId)
    IN  /\ clone.pc = "clone"
        /\ doc' = IF copied[id].type = "FRAME"
                  THEN [copied EXCEPT ![id].fills = <<>>]
                  ELSE copied
        /\ clone' = [clone EXCEPT !.w = RatOf(doc[source].w), !.h = RatOf(doc[source].h),
                                  !.pc = "scale"] @@ [id |-> id]
        /\ UNCHANGED <<form, preview, settings, selection, productNameError, textProductNameError,
                       inbox, toPanel, tasks, running, clicks>>

\* scaleToFit(clone, options.width, options.height, padding)
FitClone ==
    /\ clone.pc = "scale"
    /\ clone' = [ScaleToFit(clone, clone.options.width, clone.options.height,
                            PaddingOf(clone.options)) EXCEPT !.pc = "center"]
    /\ UNCHANGED <<form, preview, settings, doc, selection, productNameError, textProductNameError,
                   inbox, toPanel, tasks, running, clicks>>

\* centerInParent(clone, options.width, options.height)
CenterClone ==
    /\ clone.pc = "center"
    /\ clone' = [CenterInParent(clone, clone.options.width, clone.options.height)
                    EXCEPT !.pc = "color"]
    /\ UNCHANGED <<form, preview, settings, doc, selection, productNameError, textProductNameError,
                   inbox, toPanel, tasks, running, clicks>>

\* if (options.colorOverride) applyColorToAllFills(clone, options.colorOverride)
OverrideColor ==
    /\ clone.pc = "color"
    /\ IF clone.options.colorOverride # <<>>
       THEN /\ doc' = ApplyColorToAllFills(doc, clone.id, clone.options.colorOverride[1])
            /\ clone' = [clone EXCEPT !.pc = "lock",
                                      !.calls = Append(@, "applyColorToAllFills")]
       ELSE /\ doc' = doc
            /\ clone' = [clone EXCEPT !.pc = "lock"]
    /\ UNCHANGED <<form, preview, settings, selection, productNameError, textProductNameError,
                   inbox, toPanel, tasks, running, clicks>>

\* setScaleConstraintsRecursive(clone)
LockConstraints ==
    /\ clone.pc = "lock"
    /\ doc' = SetScaleConstraintsRecursive(doc, clone.id)
    /\ clone' = [clone EXCEPT !.pc = "strip",
                              !.calls = Append(@, "setScaleConstraintsRecursive")]
    /\ UNCHANGED <<form, preview, settings, selection, productNameError, textProductNameError,
                   inbox, toPanel, tasks, running, clicks>>

\* removeHiddenFills(clone)
StripHiddenFills ==
    /\ clone.pc = "strip"
    /\ doc' = RemoveHiddenFills(doc, clone.id)
    /\ clone' = [clone EXCEPT !.pc = "append",
                              !.calls = Append(@, "removeHiddenFills")]
    /\ UNCHANGED <<form, preview, settings, selection, productNameError, textProductNameError,
                   inbox, toPanel, tasks, running, clicks>>

\* an append that comes before the hidden fills are removed: the early append
\* C26 rules out
AppendBeforeStrip ==
    /\ clone.pc = "strip"
    /\ doc' = AppendChild(doc, clone.component, clone.id)
    /\ clone' = [clone EXCEPT !.pc = "done", !.calls = Append(@, "appendChild")]
    /\ UNCHANGED <<form, preview, settings, selection, productNameError, textProductNameError,
                   inbox, toPanel, tasks, running, clicks>>

\* component.appendChild(clone)
AppendClone ==
    /\ clone.pc = "append"
    /\ doc' = AppendChild(doc, clone.component, clone.id)
    /\ clone' = [clone EXCEPT !.pc = "done", !.calls = Append(@, "appendChild")]
    /\ UNCHANGED <<form, preview, settings, selection, productNameError, textProductNameError,
                   inbox, toPanel, tasks, running, clicks>>

\* return component: the builder is ready for its next call
ReturnVariant ==
    /\ clone.pc = "done"
    /\ clone' = [NoClone EXCEPT !.hasRescale = TRUE] @@ [pc |-> "idle"]
    /\ UNCHANGED <<form, preview, settings, doc, selection, productNameError, textProductNameError,
                   inbox, toPanel, tasks, running, clicks>>

NextVariant ==
    \/ \E i \in 1..4, faviconHasBackground \in BOOLEAN : BeginVariant(i, faviconHasBackground)
    \/ CloneSource
    \/ FitClone
    \/ CenterClone
    \/ OverrideColor
    \/ LockConstraints
    \/ StripHiddenFills
    \/ AppendClone
    \/ ReturnVariant

SpecVariant == InitVariant /\ [][NextVariant]_vars

\* the place of a call in the order of the builder
StepRank(call) ==
    CASE call \in {"rescale", "resize"} -> 1
      [] call = "center" -> 2
      [] call = "applyColorToAllFills" -> 3
      [] call = "setScaleConstraintsRecursive" -> 4
      [] call = "removeHiddenFills" -> 5
      [] call = "appendChild" -> 6

\* the calls made on the clone so far follow the order, none of them twice
InOrderOnce ==
    \A i, j \in 1..Len(clone.calls) :
        i < j => StepRank(clone.calls[i]) < StepRank(clone.calls[j])

Called(call) == \E i \in 1..Len(clone.calls) : clone.calls[i] = call

\* the clone is a child of some node other than the page
CloneAttached ==
    /\ clone.pc \notin {"idle", "clone"}
    /\ \E n \in 1..Len(doc) : n # PageId /\ clone.id \in Range(doc[n].kids)

\* the clone as the builder hands it over: fitted with the padding of its
\* variant, centered, recoloured if asked, locked and without hidden fills
CloneFinished ==
    LET options == clone.options
        box == <<options.width, options.height, PaddingOf(options)>>
        nodes == Subtree(doc, clone.id)
    IN  /\ FillsBox(clone, box)
        /\ clone.x = RatDiv(RatSub(RatOf(options.width), clone.w), RatOf(2))
        /\ clone.y = RatDiv(RatSub(RatOf(options.height), clone.h), RatOf(2))
        /\ Called("center") /\ Called("setScaleConstraintsRecursive")
        /\ Called("removeHiddenFills")
        /\ Called("applyColorToAllFills") <=> options.colorOverride # <<>>
        /\ \A n \in nodes :
              /\ doc[n].locked
              /\ \A k \in 1..Len(doc[n].fills) :
                    /\ doc[n].fills[k].visible
                    /\ (options.colorOverride # <<>> /\ doc[n].fills[k].type = "SOLID")
                          => doc[n].fills[k].color = options.colorOverride[1]

\* C26: while a variant is built from a selection the steps on the clone come
\* in the order scale-to-fit with the padding of the variant, centering,
\* optional colour override, locking of the scale constraints of the subtree,
\* removal of the invisible fills, each at most once; the clone is a child of
\* the variant only after all of them; and no step changes the fill of a
\* background rectangle.
C26_CloneSteps ==
    /\ [](InOrderOnce /\ (CloneAttached => clone.pc = "done" /\ CloneFinished))
    /\ [][\A n \in 1..Len(doc) :
             doc[n].type = "RECTANGLE" => doc'[n].fills = doc[n].fills]_vars

\* a frame was cloned for the light variant with the black override and went
\* through all six calls before it was appended
C26_Witness ==
    /\ clone.pc = "done"
    /\ clone.options.size = "300x100-Light-NoBg"
    /\ clone.calls = <<"rescale", "center", "applyColorToAllFills",
                       "setScaleConstraintsRecursive", "removeHiddenFills", "appendChild">>
    /\ doc[clone.id].type = "FRAME"
    /\ CloneAttached

\* ---- vector requests whose sources have gone

\* the source of each variant: the hero, the light, the dark or the favicon
\* variant takes slot B, the others slot A
FailSources ==
    {<<"A", "A", "A", "A">>, <<"B", "A", "A", "A">>, <<"A", "B", "A", "A">>,
     <<"A", "A", "B", "A">>, <<"A", "A", "A", "B">>}

FailNames == {<<97>>, <<98>>}

\* both slots hold a grabbed vector
InitFail ==
    /\ doc = InitDoc
    /\ selection = [s \in Slots |-> CASE s = "A" -> VectorA
                                      [] s = "B" -> VectorB
                                      [] OTHER -> Null]
    /\ productNameError = FALSE
    /\ textProductNameError = FALSE
    /\ inbox = <<>>
    /\ toPanel = <<>>
    /\ tasks = <<>>
    /\ running = 0
    /\ clicks = 0
    /\ form = DefaultForm
    /\ preview = PreviewOf(selection)
    /\ settings = NoSettings
    /\ clone = NoClone

NextFail ==
    \/ /\ clicks < MaxCreates
       /\ \E productName \in FailNames, sources \in FailSources,
             faviconHasBackground \in BOOLEAN :
             HandleCreateComponentSet(productName, sources, faviconHasBackground, Null)
    \/ \E n \in {VectorA, VectorB} : DeleteNode(n)
    \/ CoreReceive
    \/ Validate
    \/ BuildVariant
    \/ Assemble
    \/ Place
    \/ Focus

SpecFail == InitFail /\ [][NextFail]_vars

FailedVector ==
    {r \in 1..Len(tasks) : tasks[r].kind = "CREATE_COMPONENT_SET" /\ tasks[r].pc = "failed"}

\* the nodes a request has made: its variants and its group
MadeBy(r) ==
    Len(tasks[r].variants) + (IF tasks[r].componentSet # Null THEN 1 ELSE 0)

RECURSIVE MadeUpTo(_)
MadeUpTo(r) == IF r = 0 THEN 0 ELSE MadeUpTo(r - 1) + MadeBy(r)

\* the variant is a component of its own directly under the page
Standalone(v) ==
    /\ doc[v].type = "COMPONENT"
    /\ ~doc[v].removed
    /\ v \in Range(doc[PageId].kids)
    /\ \A n \in 1..Len(doc) : n # PageId => v \notin Range(doc[n].kids)

\* the first variant of the request whose source does not resolve
FirstUnresolved(d, config) ==
    CHOOSE k \in 1..4 :
        /\ CreateVariantThrows(d, VariantOptions(config, k))
        /\ \A i \in 1..(k - 1) : ~CreateVariantThrows(d, VariantOptions(config, i))

\* C27: a vector request that fails leaves exactly the nodes built before the
\* failure and never a group: the k-th variant is the first whose source does
\* not resolve, the k - 1 variants before it stay as standalone components,
\* nothing is removed, nothing else is made, and no group is combined.
C27_FailureKeepsBuilt ==
    /\ [](/\ Len(doc) = Len(InitDoc) + MadeUpTo(Len(tasks))
          /\ \A r \in FailedVector :
                /\ tasks[r].componentSet = Null
                /\ Len(tasks[r].variants) < 4
                /\ \A i \in 1..Len(tasks[r].variants) : Standalone(tasks[r].variants[i]))
    /\ [][\A r \in 1..Len(tasks) :
            (r \in FailedVector' /\ r \notin FailedVector)
                => /\ doc' = doc
                   /\ \E k \in 1..4 : CreateVariantThrows(doc, VariantOptions(tasks[r].config, k))
                   /\ Len(tasks'[r].variants) = FirstUnresolved(doc, tasks[r].config) - 1]_vars

\* the dark variant was the first without a source: the hero and the light
\* variant stay on the page, and there is no group
C27_Witness ==
    \E r \in FailedVector :
        /\ Len(tasks[r].variants) = 2
        /\ \A i \in 1..2 : Standalone(tasks[r].variants[i])
        /\ tasks[r].config.darkVariantSource = "B"
        /\ \A n \in 1..Len(doc) : doc[n].type # "COMPONENT_SET"

\* ---- every create request comes to an end

\* the create clicks of one run
MaxLive == 2

\* slot A holds a captured vector, slot B nothing; the user creates vector and
\* text logos with or without a target and may delete the target whenever the
\* loop is idle
\* the vector requests of the user: sources, favicon background, target
LiveRequests ==
    {<<<<"A", "A", "A", "A">>, TRUE, Null>>,
     <<<<"A", "A", "A", "B">>, TRUE, Null>>,
     <<<<"A", "A", "A", "B">>, FALSE, TargetFrame>>,
     <<<<"A", "A", "A", "A">>, FALSE, TargetFrame>>}

NextLive ==
    \/ /\ clicks < MaxLive
       /\ \E productName \in TargetNames, request \in LiveRequests :
             HandleCreateComponentSet(productName, request[1], request[2], request[3])
    \/ /\ clicks < MaxLive
       /\ \E textProductName \in TargetNames :
             HandleCreateTextLogo(textProductName, TRUE, TargetFrame)
    \/ DeleteNode(TargetFrame)
    \/ CoreReceive
    \/ Validate
    \/ AwaitTypeface
    \/ BuildVariant
    \/ Assemble
    \/ Place
    \/ \E r \in 1..Len(tasks) : FontLoaded(r)
    \/ \E r \in 1..Len(tasks) : FontRejected(r)
    \/ CreateGroup
    \/ InsertSet
    \/ Focus

\* the event loop delivers a waiting message and runs a handler up to its
\* next await
CoreStep ==
    \/ CoreReceive
    \/ Validate
    \/ AwaitTypeface
    \/ BuildVariant
    \/ Assemble
    \/ Place
    \/ CreateGroup
    \/ InsertSet
    \/ Focus

\* the promise of figma.loadFontAsync settles, one way or the other
FontSettles(r) == r <= Len(tasks) /\ (FontLoaded(r) \/ FontRejected(r))

SpecLive ==
    /\ InitPlace
    /\ [][NextLive]_vars
    /\ WF_vars(CoreStep)
    /\ \A r \in 1..MaxLive : WF_vars(FontSettles(r))

ValidationNotices ==
    {"Please select at least one element",
     "Some variants require a selection that is not set"}

FailureNotices == {ErrSource, ErrFont, ErrRemoved}

\* how many of the notices of the request are in the set
NoticesIn(t, set) == Cardinality({i \in 1..Len(t.notes) : t.notes[i] \in set})

\* what the notices and the nodes of a request are, by the state it is in
EndsOneWay(t) ==
    /\ t.pc = "rejected"
       => /\ Len(t.notes) = 1 /\ t.notes[1] \in ValidationNotices
          /\ t.variants = <<>> /\ t.componentSet = Null
          /\ t.contentFrame = Null /\ t.variantGroup = Null
    /\ t.pc = "failed"
       => Len(t.notes) = 1 /\ t.notes[1] \in FailureNotices
    /\ t.pc = "done"
       => /\ NoticesIn(t, {SuccessNotice(t.kind)}) = 1
          /\ NoticesIn(t, FailureNotices \cup ValidationNotices) = 0
    /\ t.pc \notin Terminal
       => NoticesIn(t, FailureNotices \cup ValidationNotices
                       \cup {SuccessNotice(t.kind)}) = 0

\* in document d the group of the request exists with its four variants and is
\* where the placement puts it
GroupPlaced(d, t) ==
    /\ GetNodeById(d, t.componentSet) # Null
    /\ d[t.componentSet].type = "COMPONENT_SET"
    /\ Len(t.variants) = 4
    /\ d[t.componentSet].kids = t.variants
    /\ \A i \in 1..4 : GetNodeById(d, t.variants[i]) # Null
    /\ \/ d[t.componentSet].position = "origin"
       \/ /\ t.variantGroup # Null
          /\ GetNodeById(d, t.variantGroup) # Null
          /\ t.componentSet \in Range(d[t.variantGroup].kids)

\* C28: every create request ends, as long as the font loads of the host
\* settle, and it ends in exactly one way: rejected with one validation notice
\* and nothing built, failed with exactly one failure notice, or done with
\* exactly one success notice; never with both a success and a failure
\* notice; an ended request does not change any more; and at the success the
\* group exists with its four variants and has been placed.
C28_EndsOneWay ==
    /\ [](\A r \in CreateTasks : EndsOneWay(tasks[r]))
    /\ [][\A r \in CreateTasks :
            /\ tasks[r].pc \in Terminal => tasks'[r] = tasks[r]
            /\ (tasks[r].pc # "done" /\ tasks'[r].pc = "done")
                  => GroupPlaced(doc', tasks'[r])]_vars
    /\ (inbox # <<>>) ~> (inbox = <<>>)
    /\ \A r \in 1..MaxLive :
          (Len(tasks) >= r) ~> (Len(tasks) >= r /\ tasks[r].pc \in Terminal)

\* of two requests one was rejected at the validation and the other is done
\* in a bucket of the target after its font load
C28_Witness ==
    /\ \E r \in CreateTasks :
          tasks[r].pc = "rejected" /\ tasks[r].notes = <<"Some variants require a selection that is not set">>
    /\ \E r \in CreateTasks :
          /\ tasks[r].pc = "done"
          /\ tasks[r].variantGroup # Null
          /\ GroupPlaced(doc, tasks[r])

\* ---- the settings at the start of the panel

\* loadSettingsAsync(defaultSettings) on the value the storage holds
LoadSettings(stored) == IF stored = Undefined THEN DefaultSettings ELSE stored[1]

\* the settings object saveSettings builds from the panel state
PanelSettings ==
    [bgVariantSource |-> settings.sources[1],
     lightVariantSource |-> settings.sources[2],
     darkVariantSource |-> settings.sources[3],
     faviconVariantSource |-> settings.sources[4],
     lightModeBlack |-> form.lightModeBlack,
     darkModeWhite |-> form.darkModeWhite,
     faviconHasBackground |-> settings.faviconHasBackground,
     faviconBackgroundShape |-> form.faviconBackgroundShape]

\* what the storage may hold when the panel is opened
StoredInputs ==
    {Undefined,
     <<DefaultSettings>>,
     <<[DefaultSettings EXCEPT !.faviconHasBackground = TRUE]>>,
     <<[DefaultSettings EXCEPT !.faviconBackgroundShape = "circle"]>>,
     <<[DefaultSettings EXCEPT !.lightModeBlack = TRUE, !.darkVariantSource = "B"]>>,
     <<[DefaultSettings EXCEPT !.darkModeWhite = TRUE, !.faviconVariantSource = "A"]>>}

InitSettings ==
    /\ doc = InitDoc
    /\ selection = [s \in Slots |-> Null]
    /\ productNameError = FALSE
    /\ textProductNameError = FALSE
    /\ inbox = <<>>
    /\ toPanel = <<>>
    /\ tasks = <<>>
    /\ running = 0
    /\ clicks = 0
    /\ form = DefaultForm
    /\ preview = PreviewOf(selection)
    /\ clone = NoClone
    /\ \E stored \in StoredInputs :
           settings = [NoSettings EXCEPT !.stored = stored, !.opened = stored]

\* the effects of the first render, in the order of their declaration: the
\* request for the settings, then saveSettings with the state of the panel
Mount ==
    /\ ~settings.mounted
    /\ settings' = [settings EXCEPT !.mounted = TRUE]
    /\ inbox' = inbox \o <<[name |-> "REQUEST_SETTINGS", arg |-> Null],
                           [name |-> "SAVE_SETTINGS", arg |-> PanelSettings]>>
    /\ UNCHANGED <<form, preview, clone, doc, selection, productNameError, textProductNameError,
                   toPanel, tasks, running, clicks>>

\* REQUEST_SETTINGS: the handler calls loadSettingsAsync and awaits it
RequestSettings ==
    /\ At({"REQUEST_SETTINGS"}, "start")
    /\ tasks' = [tasks EXCEPT ![running].pc = "awaitLoad"]
    /\ running' = 0
    /\ UNCHANGED <<form, preview, clone, settings, doc, selection, productNameError,
                   textProductNameError, inbox, toPanel, clicks>>

\* the host serves the getAsync of the load
HostReads(r) ==
    /\ tasks[r].pc = "awaitLoad"
    /\ tasks' = [tasks EXCEPT ![r].pc = "loaded",
                              ![r].config = LoadSettings(settings.stored)]
    /\ settings' = [settings EXCEPT !.served = Append(@, r)]
    /\ UNCHANGED <<form, preview, clone, doc, selection, productNameError, textProductNameError,
                   inbox, toPanel, running, clicks>>

\* the load has resolved: emit LOAD_SETTINGS
LoadResolved(r) ==
    /\ running = 0
    /\ tasks[r].pc = "loaded"
    /\ toPanel' = Append(toPanel, [name |-> "LOAD_SETTINGS", settings |-> tasks[r].config])
    /\ tasks' = [tasks EXCEPT ![r].pc = "done"]
    /\ UNCHANGED <<form, preview, clone, settings, doc, selection, productNameError,
                   textProductNameError, inbox, running, clicks>>

\* SAVE_SETTINGS: the handler calls saveSettingsAsync and awaits it
SaveSettings ==
    /\ At({"SAVE_SETTINGS"}, "start")
    /\ tasks' = [tasks EXCEPT ![running].pc = "awaitSave"]
    /\ running' = 0
    /\ UNCHANGED <<form, preview, clone, settings, doc, selection, productNameError,
                   textProductNameError, inbox, toPanel, clicks>>

\* the host serves the setAsync of the save
HostWrites(r) ==
    /\ tasks[r].pc = "awaitSave"
    /\ settings' = [settings EXCEPT !.stored = <<tasks[r].config>>,
                                    !.served = Append(@, r)]
    /\ tasks' = [tasks EXCEPT ![r].pc = "saved"]
    /\ UNCHANGED <<form, preview, clone, doc, selection, productNameError, textProductNameError,
                   inbox, toPanel, running, clicks>>

\* the save has resolved: the handler returns
SaveResolved(r) ==
    /\ running = 0
    /\ tasks[r].pc = "saved"
    /\ tasks' = [tasks EXCEPT ![r].pc = "done"]
    /\ UNCHANGED <<form, preview, clone, settings, doc, selection, productNameError,
                   textProductNameError, inbox, toPanel, running, clicks>>

\* the LOAD_SETTINGS listener of the panel sets its eight fields; the effect
\* on saveSettings emits SAVE_SETTINGS when one of them has changed
OnLoadSettings ==
    /\ toPanel # <<>>
    /\ LET loaded == Head(toPanel).settings IN
       /\ settings' = [settings EXCEPT
              !.sources = <<loaded.bgVariantSource, loaded.lightVariantSource,
                            loaded.darkVariantSource, loaded.faviconVariantSource>>,
              !.faviconHasBackground = loaded.faviconHasBackground]
       /\ form' = [form EXCEPT !.lightModeBlack = loaded.lightModeBlack,
                               !.darkModeWhite = loaded.darkModeWhite,
                               !.faviconBackgroundShape = loaded.faviconBackgroundShape]
       /\ inbox' = IF loaded # PanelSettings
                   THEN Append(inbox, [name |-> "SAVE_SETTINGS", arg |-> loaded])
                   ELSE inbox
    /\ toPanel' = Tail(toPanel)
    /\ UNCHANGED <<preview, clone, doc, selection, productNameError, textProductNameError,
                   tasks, running, clicks>>

NextSettings ==
    \/ Mount
    \/ CoreReceive
    \/ RequestSettings
    \/ \E r \in 1..Len(tasks) : HostReads(r)
    \/ \E r \in 1..Len(tasks) : LoadResolved(r)
    \/ SaveSettings
    \/ \E r \in 1..Len(tasks) : HostWrites(r)
    \/ \E r \in 1..Len(tasks) : SaveResolved(r)
    \/ OnLoadSettings

SpecSettings == InitSettings /\ [][NextSettings]_vars

\* the panel is open and every message of its start has been dealt with
StartupOver ==
    /\ settings.mounted
    /\ inbox = <<>>
    /\ toPanel = <<>>
    /\ running = 0
    /\ \A r \in 1..Len(tasks) : tasks[r].pc = "done"

\* the host has served the storage calls in the order they were made
ServedInOrder ==
    \A i, j \in 1..Len(settings.served) :
        i < j => settings.served[i] < settings.served[j]

\* C29: opening the panel never loses persisted settings: however the load of
\* REQUEST_SETTINGS and the write of SAVE_SETTINGS interleave, once the
\* startup messages are processed and the user has changed nothing, the
\* stored settings are those stored before and the panel shows them.
C29_SettingsSurvive ==
    (StartupOver /\ settings.opened # Undefined)
        => /\ settings.stored = settings.opened
           /\ PanelSettings = settings.opened[1]

\* the same when the host serves the storage calls in the order of the calls
SettingsSurviveInOrder == ServedInOrder => C29_SettingsSurvive

\* ---- the slots of the panel

\* the grab clicks of one run
MaxSlotGrabs == 2

\* the messages the SELECTION_UPDATE listener is typed for: a slot, and an
\* info that is null, lacks its image data, or is complete
UpdateInputs ==
    [slot : {"A", "B"},
     info : {[isNull |-> TRUE, id |-> Null, name |-> <<>>, imageData |-> FALSE],
             [isNull |-> FALSE, id |-> VectorB, name |-> <<109>>, imageData |-> FALSE],
             [isNull |-> FALSE, id |-> VectorB, name |-> <<109>>, imageData |-> TRUE]}]

\* a SELECTION_UPDATE reaches the panel
EmitSelectionUpdate(update) ==
    /\ toPanel = <<>>
    /\ toPanel' = Append(toPanel, update)
    /\ UNCHANGED <<form, preview, settings, clone, doc, selection, productNameError,
                   textProductNameError, inbox, tasks, running, clicks>>

\* handleClearSelectionA..D
HandleClearSelection(slot) ==
    /\ selection' = [selection EXCEPT ![slot] = Null]
    /\ preview' = [preview EXCEPT ![slot] = <<>>]
    /\ UNCHANGED <<form, settings, clone, doc, productNameError, textProductNameError,
                   inbox, toPanel, tasks, running, clicks>>

NextSlots ==
    \/ /\ Dispatched({"GRAB_SELECTION"}) < MaxSlotGrabs
       /\ \E slot \in {"A", "B"} : HandleGrabSelection(slot)
    \/ \E sel \in SelectionInputs : GrabSelection(sel)
    \/ \E r \in 1..Len(tasks) : ExportResolved(r)
    \/ \E r \in 1..Len(tasks) : ExportRejected(r)
    \/ CoreReceive
    \/ \E update \in UpdateInputs : EmitSelectionUpdate(update)
    \/ OnSelectionUpdate
    \/ \E slot \in Slots : HandleClearSelection(slot)

SpecSlots == Init /\ [][NextSlots]_vars

\* the step changes selection and preview of no slot but the listed ones
OnlySlots(slots) ==
    \A s \in Slots \ slots : selection'[s] = selection[s] /\ preview'[s] = preview[s]

\* C30: in the panel the selection of a slot is null exactly when its preview
\* is null; a SELECTION_UPDATE for a slot and a clear of a slot change the
\* selection and the preview of that slot only; a SELECTION_UPDATE whose info
\* is null or has no image data changes no slot.
C30_SlotAndPreview ==
    /\ [](\A s \in Slots : selection[s] = Null <=> preview[s] = <<>>)
    /\ [][/\ OnSelectionUpdate =>
                IF Head(toPanel).info.isNull \/ ~Head(toPanel).info.imageData
                THEN OnlySlots({})
                ELSE /\ OnlySlots({Head(toPanel).slot})
                     /\ selection'[Head(toPanel).slot] = Head(toPanel).info.id
                     /\ preview'[Head(toPanel).slot] # <<>>
          /\ \A slot \in Slots :
                HandleClearSelection(slot)
                   => /\ OnlySlots({slot})
                      /\ selection'[slot] = Null /\ preview'[slot] = <<>>]_vars

\* slot A holds a grabbed vector with its preview, slot B was filled and
\* cleared again, and a message without image data is waiting
C30_Witness ==
    /\ selection["A"] = VectorA /\ preview["A"] = <<VectorA>>
    /\ selection["B"] = Null /\ preview["B"] = <<>>
    /\ \E r \in 1..Len(tasks) : tasks[r].kind = "GRAB_SELECTION" /\ tasks[r].pc = "done"
    /\ toPanel # <<>> /\ ~Head(toPanel).info.imageData

====
